---- MODULE Spec2Model ----
(***************************************************************************)
(* A model of the catalog scraping and upsert pipeline of the cloud        *)
(* pricing API: the batched upsert (addProducts / upsertProducts), the     *)
(* paginated catalog listing (getCatalogEntries, queryCatalogItems), the   *)
(* rate-limit retry loop (downloadAll) and the scrape() entry points.      *)
(*                                                                         *)
(* Seven specifications share the variables:                               *)
(*   Spec        addProducts driven directly by a caller                   *)
(*   SpecPage    the two pagination loops against a catalog server         *)
(*   SpecPageSteady  getCatalogEntries against a server that reports the   *)
(*               same positive total in every response                     *)
(*   SpecScrape  scrape() of ibmKubernetes and of ibmCatalog, including    *)
(*               downloadAll, loadAll and the upserts they call            *)
(*   SpecPrices  the price mappings getPrices and parsePrices applied to   *)
(*               pricing payloads                                          *)
(*   SpecWalk    the crawl of ibmCatalog's scrape(): the tree walk of      *)
(*               fetchPricingForProduct, then parseProducts                *)
(*   SpecProducts  the product mappings of the scrapers applied run after  *)
(*               run to the same remote data                               *)
(***************************************************************************)
EXTENDS Integers, Sequences, FiniteSets, TLC

VARIABLES
  products,                \* addProducts: the argument
  idx,                     \* addProducts: position of the for-of loop (1-based)
  productHashToInsertRow,  \* addProducts: the Map, in insertion order
  upc,                     \* addProducts: "idle" | "loop" | "done" | "error"
  issued,                  \* every pool.query statement sent, in order
  table,                   \* the product table: productHash -> stored row
  tableAtCall,             \* the product table as addProducts found it
  pfn,                     \* pagination: the loop that runs
  ppc,                     \* pagination: "loop" | "done" | "error"
  total,                   \* pagination: entries the catalog server holds
  offset,                  \* pagination: the offset of the next request
  next,                    \* getCatalogEntries: the loop flag
  servicesArray,           \* pagination: the entries collected so far
  requests,                \* pagination: the offsets requested, in order
  lastResp,                \* pagination: the last list response received
  scraper,                 \* scrape: the scraper whose scrape() runs
  spc,                     \* scrape: position in scrape()
  attempts,                \* downloadAll: attempts
  success,                 \* downloadAll: success
  resp,                    \* downloadAll: resp (null until a request succeeds)
  events,                  \* downloadAll: the responses and sleeps, in order
  file,                    \* data/ibm-instances.json
  saasProducts,            \* ibmCatalog scrape: saasProducts
  iaasProducts,            \* ibmCatalog scrape: iaasProducts
  upsertOutcomes,          \* scrape: how each upsertProducts call ended
  nfn,                     \* price mapping: the function applied, or "none"
  leaf,                    \* price mapping: its argument
  emitted,                 \* price mapping: what it returned or threw
  clock,                   \* the wall clock new Date() reads
  earlier,                 \* product mapping: what the run before handed over
  ndep,                    \* catalog: deployments under plan planA
  fault,                   \* catalog: the node the server fails on, and how
  ei,                      \* ibmCatalog scrape: position in serviceEntries
  wpc,                     \* ibmCatalog scrape: position in the crawl
  stack,                   \* fetchPricingForProduct: stack
  currentElem,             \* fetchPricingForProduct: currentElem
  chunks,                  \* fetchPricingForProduct: chunks not yet issued
  inflight,                \* pricing fetches issued and not yet settled
  fetched,                 \* nodes a pricing fetch was issued for
  pricingChildren,         \* node -> its pricingChildren (<<>> when unset)
  errorLog,                \* nodes config.logger.error was called for
  saasResults,             \* ibmCatalog scrape: saasResults
  parsed,                  \* ibmCatalog scrape: parseProducts(saasResults)
  werr,                    \* ibmCatalog scrape: what made scrape() reject
  walkLog                  \* fetchPricingForProduct: every pop and fetch, in order

upsertVars ==
  <<products, idx, productHashToInsertRow, upc, issued, table, tableAtCall>>

----------------------------------------------------------------------------
(* Bounds of the model.                                                    *)

\* src/src/health.ts:32 sets batchSize = 1000; the model scales it down so
\* that a batch can fill up within MaxLen products.
batchSize == 2

\* Longest input sequence handed to addProducts.
MaxLen == 4

----------------------------------------------------------------------------
(* Values.                                                                 *)

\* An absent row of the table.
NoRow == [absent |-> TRUE]

Range(s) == {s[i] : i \in 1..Len(s)}

RECURSIVE Flatten(_)
Flatten(ss) == IF ss = <<>> THEN <<>> ELSE Head(ss) \o Flatten(Tail(ss))

Hashes == {"h1", "h2", "h3", "h4"}

Pr(k, usd) == [priceHash |-> k, USD |-> usd]

\* Products as the scrapers build them (types Product, Price): "h1" exists in
\* two versions, a scrape and a later scrape with changed columns and prices.
Prod(h, v) ==
  [productHash   |-> h,
   sku           |-> IF v = 1 THEN <<"sku", h>> ELSE <<"sku2", h>>,
   vendorName    |-> IF v = 1 THEN "ibm" ELSE "ibm2",
   region        |-> IF v = 1 THEN "us-south" ELSE "eu-de",
   service       |-> IF v = 1 THEN "svc" ELSE "svc2",
   productFamily |-> IF v = 1 THEN (IF h = "h3" THEN "" ELSE "service") ELSE "iaas",
   attributes    |-> IF v = 1 THEN <<"planType", "paid">> ELSE <<"planType", "free">>,
   prices        |-> IF v = 2 THEN <<Pr("k3", "5")>>
                     ELSE IF h = "h1" THEN <<Pr("k1", "10"), Pr("k2", "20"), Pr("k1", "30")>>
                     ELSE IF h = "h2" THEN <<Pr("k1", "7")>>
                     ELSE IF h = "h3" THEN <<>>
                     ELSE <<Pr("k2", "1"), Pr("k2", "2")>>]

ProductSet == {Prod(h, 1) : h \in Hashes} \cup {Prod("h1", 2)}

RECURSIVE SeqsUpTo(_, _)
SeqsUpTo(S, n) ==
  IF n = 0 THEN {<<>>}
  ELSE LET shorter == SeqsUpTo(S, n - 1)
       IN shorter \cup {Append(s, x) : s \in {t \in shorter : Len(t) = n - 1}, x \in S}

----------------------------------------------------------------------------
(* The Map productHashToInsertRow: entries in insertion order.             *)

MapKeys(m) == {m[i].key : i \in 1..Len(m)}

MapHas(m, k) == k \in MapKeys(m)

MapSize(m) == Len(m)

MapValues(m) == [i \in 1..Len(m) |-> m[i].value]

\* Map.prototype.set: an existing key keeps its place and gets the new value.
MapSet(m, k, v) ==
  IF MapHas(m, k)
  THEN [i \in 1..Len(m) |-> IF m[i].key = k THEN [key |-> k, value |-> v] ELSE m[i]]
  ELSE Append(m, [key |-> k, value |-> v])

----------------------------------------------------------------------------
(* addProducts, src/src/health.ts:35-110.                                  *)

\* A faulty variant of FlushNeeded: the duplicate test is dropped.
FlushNeededSizeOnly(m, product) == MapSize(m) > batchSize

\* The condition of the if at the head of the loop body.
FlushNeeded(m, product) ==
  MapSize(m) > batchSize \/ MapHas(m, product.productHash)

\* A faulty variant of PricesMapPut: a price replaces those already under its hash.
PricesMapPutOverwrite(pm, price) ==
  IF price.priceHash \in DOMAIN pm
  THEN [pm EXCEPT ![price.priceHash] = <<price>>]
  ELSE pm @@ (price.priceHash :> <<price>>)

\* The body of product.prices.forEach: push under the hash, or start a list.
PricesMapPut(pm, price) ==
  IF price.priceHash \in DOMAIN pm
  THEN [pm EXCEPT ![price.priceHash] = Append(@, price)]
  ELSE pm @@ (price.priceHash :> <<price>>)

EmptyObject == [k \in {} |-> <<>>]

RECURSIVE PricesMapFold(_, _)
PricesMapFold(prices, pm) ==
  IF prices = <<>> THEN pm
  ELSE PricesMapFold(Tail(prices), PricesMapPut(pm, Head(prices)))

PricesMap(prices) == PricesMapFold(prices, EmptyObject)

\* product.productFamily || ''
OrEmpty(x) == IF x = "" THEN "" ELSE x

\* The row text format(`(%L, ...)`) builds, kept as its eight values.
InsertRow(product) ==
  [productHash   |-> product.productHash,
   sku           |-> product.sku,
   vendorName    |-> product.vendorName,
   region        |-> product.region,
   service       |-> product.service,
   productFamily |-> OrEmpty(product.productFamily),
   attributes    |-> product.attributes,
   prices        |-> PricesMap(product.prices)]

\* A faulty variant of OnConflict: the stored prices are merged with the incoming ones.
OnConflictMergePrices(old, excluded) ==
  IF old = NoRow THEN excluded
  ELSE [excluded EXCEPT !.prices =
          [k \in DOMAIN old.prices \cup DOMAIN excluded.prices |->
             IF k \in DOMAIN excluded.prices THEN excluded.prices[k] ELSE old.prices[k]]]

\* ON CONFLICT ("productHash") DO UPDATE SET every column = excluded.column.
OnConflict(old, excluded) == excluded

\* Postgres rejects a statement with no VALUES row (a syntax error) and one
\* whose rows would update the same productHash twice.
StatementRejected(rows) ==
  \/ rows = <<>>
  \/ \E i, j \in 1..Len(rows) : i # j /\ rows[i].productHash = rows[j].productHash

RECURSIVE ApplyRows(_, _)
ApplyRows(t, rows) ==
  IF rows = <<>> THEN t
  ELSE LET r == Head(rows)
       IN ApplyRows([t EXCEPT ![r.productHash] = OnConflict(t[r.productHash], r)],
                    Tail(rows))

\* A faulty variant of AfterQueryError: the rejection is swallowed and the loop goes on.
AfterQueryErrorSwallowed == "loop"

\* A rejected pool.query is not caught: addProducts ends rejected.
AfterQueryError == "error"

\* A faulty variant of TrailingFlushNeeded: the batch left after the loop is dropped.
TrailingFlushNever(m) == FALSE

\* A faulty variant of TrailingFlushNeeded: the trailing statement is sent
\* whatever the batch holds.
TrailingFlushAlways(m) == TRUE

\* The condition of the if after the loop.
TrailingFlushNeeded(m) == MapSize(m) > 0

\* The call: config.pg() resolves and the Map starts empty.
BeginAddProducts(ps) ==
  /\ upc = "idle"
  /\ products' = ps
  /\ idx' = 1
  /\ productHashToInsertRow' = <<>>
  /\ issued' = <<>>
  /\ upc' = "loop"
  /\ tableAtCall' = table
  /\ UNCHANGED table

\* The call, with config.pg() rejected: nothing is sent.
BeginAddProductsNoPool(ps) ==
  /\ upc = "idle"
  /\ products' = ps
  /\ idx' = 1
  /\ productHashToInsertRow' = <<>>
  /\ issued' = <<>>
  /\ upc' = "error"
  /\ tableAtCall' = table
  /\ UNCHANGED table

\* await pool.query(...) inside the loop, then clear().  The statement is
\* one autocommitted command: applied whole, or rejected whole.
LoopFlush ==
  /\ upc = "loop"
  /\ idx <= Len(products)
  /\ FlushNeeded(productHashToInsertRow, products[idx])
  /\ LET rows == MapValues(productHashToInsertRow)
     IN \E fails \in BOOLEAN :
          LET ok == ~fails /\ ~StatementRejected(rows)
          IN /\ issued' = Append(issued, [rows |-> rows, ok |-> ok])
             /\ table' = IF ok THEN ApplyRows(table, rows) ELSE table
             /\ productHashToInsertRow' = IF ok THEN <<>> ELSE productHashToInsertRow
             /\ upc' = IF ok THEN "loop" ELSE AfterQueryError
  /\ UNCHANGED <<products, idx, tableAtCall>>

\* The rest of the loop body: pricesMap and productHashToInsertRow.set.
LoopAdd ==
  /\ upc = "loop"
  /\ idx <= Len(products)
  /\ ~FlushNeeded(productHashToInsertRow, products[idx])
  /\ productHashToInsertRow' =
       MapSet(productHashToInsertRow, products[idx].productHash, InsertRow(products[idx]))
  /\ idx' = idx + 1
  /\ UNCHANGED <<products, upc, issued, table, tableAtCall>>

\* The trailing flush, after which addProducts returns.
FinalFlush ==
  /\ upc = "loop"
  /\ idx > Len(products)
  /\ TrailingFlushNeeded(productHashToInsertRow)
  /\ LET rows == MapValues(productHashToInsertRow)
     IN \E fails \in BOOLEAN :
          LET ok == ~fails /\ ~StatementRejected(rows)
          IN /\ issued' = Append(issued, [rows |-> rows, ok |-> ok])
             /\ table' = IF ok THEN ApplyRows(table, rows) ELSE table
             /\ upc' = IF ok THEN "done" ELSE "error"
  /\ UNCHANGED <<products, idx, productHashToInsertRow, tableAtCall>>

\* The loop is over and nothing is left to flush.
ReturnNoFlush ==
  /\ upc = "loop"
  /\ idx > Len(products)
  /\ ~TrailingFlushNeeded(productHashToInsertRow)
  /\ upc' = "done"
  /\ UNCHANGED <<products, idx, productHashToInsertRow, issued, table, tableAtCall>>

AddProductsStep == LoopFlush \/ LoopAdd \/ FinalFlush \/ ReturnNoFlush

----------------------------------------------------------------------------
(* The product table before a run: empty, or as an earlier run left it.    *)

EmptyTable == [h \in Hashes |-> NoRow]

EarlierRun(v) == ApplyRows(EmptyTable, <<InsertRow(Prod("h1", v)), InsertRow(Prod("h2", 1))>>)

InitTables == {EmptyTable, EarlierRun(1), EarlierRun(2)}

UpsertIdle ==
  /\ products = <<>>
  /\ idx = 1
  /\ productHashToInsertRow = <<>>
  /\ upc = "idle"
  /\ issued = <<>>

pageVars ==
  <<pfn, ppc, total, offset, next, servicesArray, requests, lastResp>>

scrapeVars ==
  <<scraper, spc, attempts, success, resp, events, file, saasProducts,
    iaasProducts, upsertOutcomes>>

priceVars == <<nfn, leaf, emitted, clock, earlier>>

walkVars ==
  <<ndep, fault, ei, wpc, stack, currentElem, chunks, inflight, fetched,
    pricingChildren, errorLog, saasResults, parsed, werr, walkLog>>

vars == <<upsertVars, pageVars, scrapeVars, priceVars, walkVars>>

----------------------------------------------------------------------------
(* JSON values as JavaScript sees them.                                    *)

Num(n) == [kind |-> "number", val |-> n]

Undefined == [kind |-> "undefined", val |-> 0]

JsNull == [kind |-> "null", val |-> 0]

\* A string that is not the text of a number, such as "many".
Text == [kind |-> "string", val |-> 0]

\* !v is false
Truthy(v) == (v.kind = "number" /\ v.val # 0) \/ v.kind = "string"

\* n > v for a number n: null converts to 0, undefined and the text to NaN.
NumGreater(n, v) ==
  \/ v.kind = "number" /\ n > v.val
  \/ v.kind = "null" /\ n > 0

\* typeof v === 'number'
IsNumber(v) == v.kind = "number"

----------------------------------------------------------------------------
(* The catalog server: it holds the entries 1..total and serves the page   *)
(* asked for; the count field of a response is the total, or is missing,   *)
(* null or a text.                                                         *)

\* Most entries a catalog holds.
MaxTotal == 410

\* Most list requests of one run of a pagination loop.
MaxRequests == 6

Min(a, b) == IF a < b THEN a ELSE b

Page(o, l) == [i \in 1..(IF o < total THEN Min(l, total - o) ELSE 0) |-> o + i]

CountFields == {Num(total), Undefined, JsNull, Text}

ListResponses(o, l) ==
  {[offset |-> Num(o), resource_count |-> Num(Len(Page(o, l))), count |-> c,
    resources |-> Page(o, l)] : c \in CountFields}

NoResponse ==
  [offset |-> Undefined, resource_count |-> Undefined, count |-> Undefined,
   resources |-> <<>>]

----------------------------------------------------------------------------
(* getCatalogEntries, src/src/scrapers/ibmCatalog.ts:496-528.              *)

gceLimit == 200

\* A faulty variant of GceStop: the loop ends after its first page.
GceStopAfterFirstPage(o, response) == TRUE

\* The test that ends the loop: !response.count || offset > response.count
GceStop(o, response) == ~Truthy(response.count) \/ NumGreater(o, response.count)

\* One turn of while (next): the request, the push, the test, offset += limit.
GceRequest ==
  /\ pfn = "getCatalogEntries"
  /\ ppc = "loop"
  /\ next
  /\ Len(requests) < MaxRequests
  /\ \E response \in ListResponses(offset, gceLimit) :
       /\ servicesArray' = IF Len(response.resources) > 0
                           THEN servicesArray \o response.resources
                           ELSE servicesArray
       /\ next' = ~GceStop(offset, response)
       /\ lastResp' = response
  /\ requests' = Append(requests, offset)
  /\ offset' = offset + gceLimit
  /\ UNCHANGED <<pfn, ppc, total>>

\* axiosClient.get rejects (a non-2xx status, the network): not caught here.
GceRequestFails ==
  /\ pfn = "getCatalogEntries"
  /\ ppc = "loop"
  /\ next
  /\ Len(requests) < MaxRequests
  /\ requests' = Append(requests, offset)
  /\ ppc' = "error"
  /\ UNCHANGED <<pfn, total, offset, next, servicesArray, lastResp>>

\* return servicesArray
GceReturn ==
  /\ pfn = "getCatalogEntries"
  /\ ppc = "loop"
  /\ ~next
  /\ ppc' = "done"
  /\ UNCHANGED <<pfn, total, offset, next, servicesArray, requests, lastResp>>

----------------------------------------------------------------------------
(* queryCatalogItems under download, src/src/scrapers/ibmCloud.ts:127-204  *)
(* and 277-290: each page's results come with a next() when more remain.   *)

\* serviceParams.limit
qciLimit == 5

\* The test that attaches next(): the three fields are numbers and
\* offset + resourceCount < count.
QciHasNext(response) ==
  /\ IsNumber(response.count)
  /\ IsNumber(response.offset)
  /\ IsNumber(response.resource_count)
  /\ response.offset.val + response.resource_count.val < response.count.val

\* One call of queryCatalogItems by download: the request, the results, and,
\* when next() is attached, the offset download asks for next.
QciRequest ==
  /\ pfn = "queryCatalogItems"
  /\ ppc = "loop"
  /\ Len(requests) < MaxRequests
  /\ \E response \in ListResponses(offset, qciLimit) :
       /\ servicesArray' = servicesArray \o response.resources
       /\ ppc' = IF QciHasNext(response) THEN "loop" ELSE "done"
       /\ offset' = IF QciHasNext(response)
                    THEN response.offset.val + response.resource_count.val
                    ELSE offset
       /\ lastResp' = response
  /\ requests' = Append(requests, offset)
  /\ UNCHANGED <<pfn, total, next>>

\* The request rejects or answers a status >= 400: queryCatalogItems throws,
\* download catches and returns [], so the pages before it are what is kept.
QciRequestFails ==
  /\ pfn = "queryCatalogItems"
  /\ ppc = "loop"
  /\ Len(requests) < MaxRequests
  /\ requests' = Append(requests, offset)
  /\ ppc' = "done"
  /\ UNCHANGED <<pfn, total, offset, next, servicesArray, lastResp>>

PageIdle ==
  /\ pfn = "none"
  /\ ppc = "idle"
  /\ total = 0
  /\ offset = 0
  /\ next = TRUE
  /\ servicesArray = <<>>
  /\ requests = <<>>
  /\ lastResp = NoResponse

----------------------------------------------------------------------------
(* downloadAll, src/src/scrapers/ibmKubernetes.ts:83-131 and               *)
(* src/src/scrapers/ibmInstances.ts:103-149.                               *)

RETRY_DELAY_MS == 30000

MAX_RETRIES == 3

\* Most products of a downloaded price list or of a crawl's result.
MaxPayload == 2

NoFile == [state |-> "absent", data |-> <<>>]

EmptyFile == [state |-> "empty", data |-> <<>>]

JsonFile(payload) == [state |-> "json", data |-> payload]

Item(dep, product) == [deprecated |-> dep, product |-> product]

\* The entries of a price list, each with the product parseIbmProduct makes
\* of it.
PayloadItems ==
  {Item(FALSE, Prod("h1", 1)), Item(FALSE, Prod("h2", 1)),
   Item(FALSE, Prod("h1", 2)), Item(TRUE, Prod("h3", 1))}

Payloads == SeqsUpTo(PayloadItems, MaxPayload)

\* The file a previous run left.
StaleFile == JsonFile(<<Item(FALSE, Prod("h4", 1))>>)

NullResp == [isNull |-> TRUE, data |-> <<>>]

Event(e, ms) == [e |-> e, ms |-> ms]

\* A faulty variant of LoopAgain: the bound is tested with <=.
LoopAgainOffByOne == ~success /\ attempts <= MAX_RETRIES

\* while (!success && attempts < MAX_RETRIES)
LoopAgain == ~success /\ attempts < MAX_RETRIES

\* scrape() calls downloadAll.
DownloadAllStart ==
  /\ spc = "start"
  /\ scraper \in {"ibmKubernetes", "ibmInstances"}
  /\ attempts' = 0
  /\ success' = FALSE
  /\ resp' = NullResp
  /\ spc' = "attempt"
  /\ UNCHANGED <<scraper, events, file, saasProducts, iaasProducts, upsertOutcomes>>

\* One turn of the do body up to the response: attempts++ and the request,
\* answered with the price list, with 429, with another status, or not at all
\* (err.response is undefined and reading its status throws).
DownloadAttempt ==
  /\ spc = "attempt"
  /\ attempts' = attempts + 1
  /\ \/ \E payload \in Payloads :
          /\ resp' = [isNull |-> FALSE, data |-> payload]
          /\ success' = TRUE
          /\ events' = Append(events, Event("ok", 0))
          /\ spc' = "write"
     \/ /\ events' = Append(events, Event("429", 0))
        /\ spc' = "sleep"
        /\ UNCHANGED <<resp, success>>
     \/ \E e \in {"status", "noResponse"} :
          /\ events' = Append(events, Event(e, 0))
          /\ spc' = "error"
          /\ UNCHANGED <<resp, success>>
  /\ UNCHANGED <<scraper, file, saasProducts, iaasProducts, upsertOutcomes>>

\* await sleep(RETRY_DELAY_MS), then the while test.
DownloadSleep ==
  /\ spc = "sleep"
  /\ events' = Append(events, Event("sleep", RETRY_DELAY_MS))
  /\ spc' = IF LoopAgain THEN "attempt" ELSE "write"
  /\ UNCHANGED <<scraper, attempts, success, resp, file, saasProducts,
                 iaasProducts, upsertOutcomes>>

\* ibmKubernetes: the write.  With resp null the promise rejects, the catch
\* logs it, and the stream createWriteStream opened may or may not have
\* truncated the file by the time loadAll reads it.
DownloadWriteKubernetes ==
  /\ spc = "write"
  /\ scraper = "ibmKubernetes"
  /\ IF resp.isNull
     THEN file' \in {file, EmptyFile}
     ELSE file' = JsonFile(resp.data)
  /\ spc' = "load"
  /\ UNCHANGED <<scraper, attempts, success, resp, events, saasProducts,
                 iaasProducts, upsertOutcomes>>

\* ibmInstances: if (!resp) return; else the write.  scrape() ends here.
DownloadWriteInstances ==
  /\ spc = "write"
  /\ scraper = "ibmInstances"
  /\ file' = IF resp.isNull THEN file ELSE JsonFile(resp.data)
  /\ spc' = "done"
  /\ UNCHANGED <<scraper, attempts, success, resp, events, saasProducts,
                 iaasProducts, upsertOutcomes>>

----------------------------------------------------------------------------
(* loadAll, src/src/scrapers/ibmKubernetes.ts:264-285.                     *)

RECURSIVE ParseAll(_)
\* The products of the entries that are not deprecated, in file order.
ParseAll(items) ==
  IF items = <<>> THEN <<>>
  ELSE IF Head(items).deprecated THEN ParseAll(Tail(items))
       ELSE <<Head(items).product>> \o ParseAll(Tail(items))

\* readFileSync or JSON.parse throws: the catch logs it and loadAll returns.
LoadAllNoFile ==
  /\ spc = "load"
  /\ file.state # "json"
  /\ spc' = "done"
  /\ UNCHANGED <<scraper, attempts, success, resp, events, file, saasProducts,
                 iaasProducts, upsertOutcomes>>
  /\ UNCHANGED upsertVars

\* The file is read and parsed and upsertProducts is called.
LoadAllUpsert ==
  /\ spc = "load"
  /\ file.state = "json"
  /\ \/ BeginAddProducts(ParseAll(file.data))
     \/ BeginAddProductsNoPool(ParseAll(file.data))
  /\ spc' = "loadUpsert"
  /\ UNCHANGED <<scraper, attempts, success, resp, events, file, saasProducts,
                 iaasProducts, upsertOutcomes>>

\* await upsertProducts(products) sits in the try: a rejection is caught and
\* logged like a bad file, and loadAll returns normally.
LoadAllAfterUpsert(outcome) == "done"

\* How a settled upsertProducts call ended: returned, rejected by a failed
\* statement, or rejected before any statement.
UpsertOutcome ==
  IF upc = "done" THEN "done"
  ELSE IF issued # <<>> /\ ~issued[Len(issued)].ok THEN "writeFailed"
  ELSE "noPool"

\* upsertProducts has settled.
LoadAllUpserted ==
  /\ spc = "loadUpsert"
  /\ upc \in {"done", "error"}
  /\ upsertOutcomes' = Append(upsertOutcomes, UpsertOutcome)
  /\ spc' = LoadAllAfterUpsert(upc)
  /\ upc' = "idle"
  /\ UNCHANGED <<products, idx, productHashToInsertRow, issued, table, tableAtCall>>
  /\ UNCHANGED <<scraper, attempts, success, resp, events, file, saasProducts,
                 iaasProducts>>

----------------------------------------------------------------------------
(* scrape of ibmCatalog, src/src/scrapers/ibmCatalog.ts:590-652.  The      *)
(* crawl (lines 592-646) is taken as a whole: it yields the two product    *)
(* lists, or rejects.                                                      *)

CatalogProducts == {Prod("h1", 1), Prod("h2", 1)}

CrawlResults == SeqsUpTo(CatalogProducts, MaxPayload)

CatalogCrawl ==
  /\ spc = "start"
  /\ scraper = "ibmCatalog"
  /\ \E sp \in CrawlResults, ip \in CrawlResults :
       /\ saasProducts' = sp
       /\ iaasProducts' = ip
  /\ spc' = "callSaas"
  /\ UNCHANGED <<scraper, attempts, success, resp, events, file, upsertOutcomes>>

\* getToken, getCatalogEntries, the root fetch of a tree or writeFile rejects.
CatalogCrawlFails ==
  /\ spc = "start"
  /\ scraper = "ibmCatalog"
  /\ spc' = "error"
  /\ UNCHANGED <<scraper, attempts, success, resp, events, file, saasProducts,
                 iaasProducts, upsertOutcomes>>

\* await upsertProducts(saasProducts)
CatalogUpsertSaas ==
  /\ spc = "callSaas"
  /\ \/ BeginAddProducts(saasProducts)
     \/ BeginAddProductsNoPool(saasProducts)
  /\ spc' = "saasUpsert"
  /\ UNCHANGED <<scraper, attempts, success, resp, events, file, saasProducts,
                 iaasProducts, upsertOutcomes>>

\* It settled: a rejection is not caught and leaves scrape().
CatalogSaasUpserted ==
  /\ spc = "saasUpsert"
  /\ upc \in {"done", "error"}
  /\ upsertOutcomes' = Append(upsertOutcomes, UpsertOutcome)
  /\ spc' = IF upc = "error" THEN "error" ELSE "callIaas"
  /\ upc' = "idle"
  /\ UNCHANGED <<products, idx, productHashToInsertRow, issued, table, tableAtCall>>
  /\ UNCHANGED <<scraper, attempts, success, resp, events, file, saasProducts,
                 iaasProducts>>

\* await upsertProducts(iaasProducts)
CatalogUpsertIaas ==
  /\ spc = "callIaas"
  /\ \/ BeginAddProducts(iaasProducts)
     \/ BeginAddProductsNoPool(iaasProducts)
  /\ spc' = "iaasUpsert"
  /\ UNCHANGED <<scraper, attempts, success, resp, events, file, saasProducts,
                 iaasProducts, upsertOutcomes>>

CatalogIaasUpserted ==
  /\ spc = "iaasUpsert"
  /\ upc \in {"done", "error"}
  /\ upsertOutcomes' = Append(upsertOutcomes, UpsertOutcome)
  /\ spc' = IF upc = "error" THEN "error" ELSE "done"
  /\ upc' = "idle"
  /\ UNCHANGED <<products, idx, productHashToInsertRow, issued, table, tableAtCall>>
  /\ UNCHANGED <<scraper, attempts, success, resp, events, file, saasProducts,
                 iaasProducts>>

ScrapeIdle ==
  /\ scraper = "none"
  /\ spc = "idle"
  /\ attempts = 0
  /\ success = FALSE
  /\ resp = NullResp
  /\ events = <<>>
  /\ file = NoFile
  /\ saasProducts = <<>>
  /\ iaasProducts = <<>>
  /\ upsertOutcomes = <<>>

----------------------------------------------------------------------------
(* Numbers and their decimal strings.                                      *)

\* The decimal digits of a non-negative integer, most significant first.
RECURSIVE Digits(_)
Digits(n) == IF n < 10 THEN <<n>> ELSE Append(Digits(n \div 10), n % 10)

\* n.toString() and String(n)
toString(n) ==
  LET DigitChar(d) ==
        CASE d = 0 -> "0" [] d = 1 -> "1" [] d = 2 -> "2" [] d = 3 -> "3"
          [] d = 4 -> "4" [] d = 5 -> "5" [] d = 6 -> "6" [] d = 7 -> "7"
          [] d = 8 -> "8" [] d = 9 -> "9"
      RECURSIVE JoinDigits(_)
      JoinDigits(ds) ==
        IF ds = <<>> THEN "" ELSE DigitChar(Head(ds)) \o JoinDigits(Tail(ds))
  IN JoinDigits(Digits(n))

\* What a call gave: a value, or a thrown TypeError.
Returned(v) == [threw |-> FALSE, value |-> v]

Threw == [threw |-> TRUE, value |-> <<>>]

\* obj[k] of an object kept as entries in insertion order.
MapGet(m, k) == (CHOOSE e \in Range(m) : e.key = k).value

----------------------------------------------------------------------------
(* parsePrices and its helpers, src/src/scrapers/ibmKubernetes.ts:138-208. *)
(* A productJson is [unit, min_quantity, max_quantity, tiers] and a tier   *)
(* is [price, instance_hours]; 0 stands for an optional number that is     *)
(* missing as well, the code testing such fields for truthiness only.      *)

\* const lastThresholdAmountPattern = /999999999/
lastThresholdAmountPattern == <<9, 9, 9, 9, 9, 9, 9, 9, 9>>

lastThresholdAmount == "Inf"

\* n.toString().match(pattern): the pattern occurs somewhere in the text.
Match(n, pattern) ==
  LET ds == Digits(n)
  IN \E i \in 1..(Len(ds) - Len(pattern) + 1) :
       SubSeq(ds, i, i + Len(pattern) - 1) = pattern

getStartUsageAmount(productJson, tierJson, prevTierJson) ==
  IF productJson.min_quantity # 0 THEN toString(productJson.min_quantity)
  ELSE IF tierJson.instance_hours # 0
       THEN IF prevTierJson.instance_hours # 0
            THEN toString(prevTierJson.instance_hours)
            ELSE "0"
       ELSE ""

getEndUsageAmount(productJson, tierJson) ==
  IF productJson.max_quantity # 0 THEN toString(productJson.max_quantity)
  ELSE IF tierJson.instance_hours # 0
       THEN IF Match(tierJson.instance_hours, lastThresholdAmountPattern)
            THEN lastThresholdAmount
            ELSE toString(tierJson.instance_hours)
       ELSE ""

\* A faulty variant of TierModelOf: a single tier counts as stepped too.
TierModelOfAtLeastOne(numTiers) == IF numTiers >= 1 THEN "Step Tier" ELSE "Linear"

\* numTiers > 1 ? PricingModels.STEP_TIER : PricingModels.LINEAR
TierModelOf(numTiers) == IF numTiers > 1 THEN "Step Tier" ELSE "Linear"

\* The Price rows of a product, one per tier (priceHash is stamped on each
\* by generatePriceHash afterwards).
parsePrices(productJson) ==
  LET numTiers == Len(productJson.tiers)
  IN [i \in 1..numTiers |->
        LET tierJson == productJson.tiers[i]
            \* { price: 0 } stands in for the tier before the first
            prevTierJson == IF i > 1 THEN productJson.tiers[i - 1]
                            ELSE [price |-> 0, instance_hours |-> 0]
        IN [purchaseOption   |-> "",
            tierModel        |-> TierModelOf(numTiers),
            unit             |-> productJson.unit,
            USD              |-> toString(tierJson.price),
            startUsageAmount |-> getStartUsageAmount(productJson, tierJson, prevTierJson),
            endUsageAmount   |-> getEndUsageAmount(productJson, tierJson)]]

----------------------------------------------------------------------------
(* parsePricingJson and getPrices, src/src/scrapers/ibmCatalog.ts:122-279, *)
(* and the later getPrices of src/unnamed/part_003:236-283.  A pricing     *)
(* payload is [type, deployment_location, metrics], a metric               *)
(* [metric_id, tier_model, charge_unit_name, charge_unit,                  *)
(* charge_unit_quantity, effective_from, effective_until, amounts], an     *)
(* amount [country, currency, prices] and a price point [price,            *)
(* quantity_tier].  Objects with computed keys are kept as entries in      *)
(* insertion order; "" stands for an effective_from or effective_until     *)
(* that the payload does not have.                                         *)

\* amounts?.forEach body: an amount with prices, a country and a currency
\* puts its prices under amounts[`${country}-${currency}`][metricId].
AmountPut(amounts, metricId, amount) ==
  IF Len(amount.prices) > 0 /\ amount.country # "" /\ amount.currency # ""
  THEN LET key == <<amount.country, amount.currency>>
       IN IF MapHas(amounts, key)
          THEN MapSet(amounts, key, MapSet(MapGet(amounts, key), metricId, amount.prices))
          ELSE MapSet(amounts, key, MapSet(<<>>, metricId, amount.prices))
  ELSE amounts

RECURSIVE AmountsFold(_, _, _)
AmountsFold(amounts, metricId, list) ==
  IF list = <<>> THEN amounts
  ELSE AmountsFold(AmountPut(amounts, metricId, Head(list)), metricId, Tail(list))

\* The reducer of metrics.reduce.
MetricReduce(collection, metric) ==
  IF metric.metric_id = "" THEN collection
  ELSE [metrics |-> MapSet(collection.metrics, metric.metric_id,
                           [tierModel      |-> metric.tier_model,
                            chargeUnitName |-> metric.charge_unit_name,
                            chargeUnit     |-> metric.charge_unit,
                            chargeUnitQty  |-> metric.charge_unit_quantity,
                            effectiveFrom  |-> metric.effective_from,
                            effectiveUntil |-> metric.effective_until]),
        amounts |-> AmountsFold(collection.amounts, metric.metric_id, metric.amounts)]

RECURSIVE MetricsFold(_, _)
MetricsFold(collection, metrics) ==
  IF metrics = <<>> THEN collection
  ELSE MetricsFold(MetricReduce(collection, Head(metrics)), Tail(metrics))

\* What parsePricingJson returns for a payload without a metrics key.
NullPricing == [isNull |-> TRUE]

parsePricingJson(pricingObject) ==
  IF "metrics" \notin DOMAIN pricingObject THEN NullPricing
  ELSE IF Len(pricingObject.metrics) > 0
       THEN LET amountAndMetrics ==
                  MetricsFold([metrics |-> <<>>, amounts |-> <<>>], pricingObject.metrics)
            IN [type    |-> pricingObject.type,
                region  |-> pricingObject.deployment_location,
                metrics |-> amountAndMetrics.metrics,
                amounts |-> amountAndMetrics.amounts]
       ELSE [type   |-> pricingObject.type,
             region |-> pricingObject.deployment_location]

\* The Price of one price point, ibmCatalog.ts:255-274.  A metric without
\* effective_from has the time of the call as its effectiveDateStart.
CatalogPrice(meta, cost, country, currency, partNumber) ==
  [priceHash      |-> <<meta.chargeUnitName, meta.chargeUnitQty, country, currency,
                        cost.quantity_tier, partNumber>>,
   purchaseOption |-> toString(meta.chargeUnitQty),
   USD            |-> toString(cost.price),
   endUsageAmount |-> toString(cost.quantity_tier),
   tierModel      |-> meta.tierModel,
   description    |-> meta.chargeUnit,
   unit           |-> meta.chargeUnitName,
   \* effectiveFrom ?? new Date().toISOString()
   effectiveDateStart |-> IF meta.effectiveFrom # "" THEN meta.effectiveFrom
                          ELSE "T" \o toString(clock),
   effectiveDateEnd   |-> meta.effectiveUntil,
   country        |-> country,
   currency       |-> currency,
   partNumber     |-> partNumber]

\* getPrices of src/src/scrapers/ibmCatalog.ts.
getPrices(pricing, country, currency) ==
  IF "metrics" \notin DOMAIN pricing \/ "amounts" \notin DOMAIN pricing
  THEN Returned(<<>>)
  ELSE LET geoKey == <<country, currency>>
       IN \* Object.entries(amounts[geoKey]) of a missing bucket throws
          IF ~MapHas(pricing.amounts, geoKey) THEN Threw
          ELSE LET bucket == MapGet(pricing.amounts, geoKey)
               IN Returned(Flatten(
                    [j \in 1..Len(bucket) |->
                       LET partNumber == bucket[j].key
                           costs == bucket[j].value
                           meta == MapGet(pricing.metrics, partNumber)
                       IN [i \in 1..Len(costs) |->
                             CatalogPrice(meta, costs[i], country, currency, partNumber)]]))

\* getPrices of src/unnamed/part_003: a missing bucket gives no prices, and
\* each Price carries a startUsageAmount.
getPrices_part003(pricing, country, currency) ==
  LET geoKey == <<country, currency>>
  IN IF \/ "metrics" \notin DOMAIN pricing
        \/ "amounts" \notin DOMAIN pricing
        \/ ~MapHas(pricing.amounts, geoKey)
     THEN Returned(<<>>)
     ELSE LET bucket == MapGet(pricing.amounts, geoKey)
          IN Returned(Flatten(
               [j \in 1..Len(bucket) |->
                  LET partNumber == bucket[j].key
                      costs == bucket[j].value
                      meta == MapGet(pricing.metrics, partNumber)
                  IN [i \in 1..Len(costs) |->
                        \* prevCost?.quantity_tier ? String(...) : '0'
                        [startUsageAmount |->
                           IF i > 1 /\ costs[i - 1].quantity_tier # 0
                           THEN toString(costs[i - 1].quantity_tier)
                           ELSE "0"]
                          @@ CatalogPrice(meta, costs[i], country, currency, partNumber)]]))

----------------------------------------------------------------------------
(* The payloads the price mappings are applied to.                         *)

\* Most price points of a metric's amount, most tiers of a product.
MaxTiers == 2

\* Tier boundaries: an ordinary one, the run of nine 9s, and a larger number
\* whose digits hold that run.
TierPoints == {100, 999999999, 1999999999}

Cost(q) == [price |-> 1, quantity_tier |-> q]

Amount(country, currency, prices) ==
  [country |-> country, currency |-> currency, prices |-> prices]

Metric(id, tierModel, amounts) ==
  [metric_id            |-> id,
   tier_model           |-> tierModel,
   charge_unit_name     |-> "GIGABYTE",
   charge_unit          |-> "GB",
   charge_unit_quantity |-> 1,
   effective_from       |-> "",
   effective_until      |-> "",
   amounts              |-> amounts]

Pricing(location, metrics) ==
  [type |-> "paid", deployment_location |-> location, metrics |-> metrics]

\* A payload without the metrics key.
PricingNoMetrics(location) == [type |-> "paid", deployment_location |-> location]

\* The payloads handed to parsePricingJson: price points come in
\* increasing order of quantity_tier; the amounts of a metric are none,
\* USA-USD only, another geo only, or both; a second metric may stand
\* before or after the first.
PricingPayloads ==
  LET CostSeqs ==
        {s \in SeqsUpTo({Cost(q) : q \in TierPoints}, MaxTiers) :
           \A i \in 1..(Len(s) - 1) : s[i].quantity_tier < s[i + 1].quantity_tier}
      AmountLists ==
        {<<>>, <<Amount("DEU", "EUR", <<Cost(100)>>)>>}
          \cup {<<Amount("USA", "USD", c)>> : c \in CostSeqs}
          \cup {<<Amount("DEU", "EUR", <<Cost(100)>>), Amount("USA", "USD", c)>> :
                  c \in CostSeqs \ {<<>>}}
      FirstMetrics ==
        {Metric("m1", t, a) :
           t \in {"Linear", "Step Tier", "Granular Tier"}, a \in AmountLists}
      SecondMetrics ==
        {Metric("m2", "Linear", <<>>),
         Metric("m2", "Linear", <<Amount("USA", "USD", <<Cost(100)>>)>>)}
  IN {PricingNoMetrics("us-south"), Pricing("us-south", <<>>)}
       \cup {Pricing("us-south", <<m>>) : m \in FirstMetrics}
       \cup {Pricing("us-south", <<m, n>>) : m \in FirstMetrics, n \in SecondMetrics}
       \cup {Pricing("us-south", <<n, m>>) : m \in FirstMetrics, n \in SecondMetrics}

\* The products handed to parsePrices: a tier is [price, instance_hours].
ProductJsons ==
  {[unit |-> "hour", min_quantity |-> lo, max_quantity |-> hi, tiers |-> t] :
     lo \in {0, 5}, hi \in {0, 50},
     t \in SeqsUpTo({[price |-> 1, instance_hours |-> h] : h \in {0} \cup TierPoints},
                    MaxTiers)}

IsProductJson(x) == "tiers" \in DOMAIN x

\* parseProducts calls getPrices for the payloads parsePricingJson accepts.
CallGetPrices ==
  /\ nfn = "none"
  /\ ~IsProductJson(leaf)
  /\ parsePricingJson(leaf) # NullPricing
  /\ nfn' = "getPrices"
  /\ emitted' = getPrices(parsePricingJson(leaf), "USA", "USD")
  /\ UNCHANGED <<leaf, clock, earlier>>

CallGetPrices_part003 ==
  /\ nfn = "none"
  /\ ~IsProductJson(leaf)
  /\ parsePricingJson(leaf) # NullPricing
  /\ nfn' = "getPrices_part003"
  /\ emitted' = getPrices_part003(parsePricingJson(leaf), "USA", "USD")
  /\ UNCHANGED <<leaf, clock, earlier>>

\* parseIbmProduct calls parsePrices for every product of the price list.
CallParsePrices ==
  /\ nfn = "none"
  /\ IsProductJson(leaf)
  /\ nfn' = "parsePrices"
  /\ emitted' = Returned(parsePrices(leaf))
  /\ UNCHANGED <<leaf, clock, earlier>>

PriceIdle ==
  /\ nfn = "none"
  /\ leaf = PricingNoMetrics("us-south")
  /\ emitted = Returned(<<>>)
  /\ clock = 0
  /\ earlier = Returned(<<>>)

----------------------------------------------------------------------------
(* The catalog the crawl of ibmCatalog's scrape() runs against.            *)

\* Most deployments under one plan.
MaxDeployments == 8

\* _.chunk([currentElem, ...deploymentChildren], 8)
chunkSize == 8

\* A catalog entry; n tells the deployments of one plan apart.
Entry(kind, name, n) == [kind |-> kind, name |-> name, n |-> n]

\* The entries of the catalog: an entry that is no service, the service
\* svcA with its plans planA and planE, the group grpB with the service svcC
\* and its plan planC, and a child of planC that is no deployment.
catalog ==
  [tmpl   |-> Entry("template", "tmpl", 0),
   svcA   |-> Entry("service", "svcA", 0),
   grpB   |-> Entry("service", "grpB", 0),
   svcC   |-> Entry("service", "svcC", 0),
   planA  |-> Entry("plan", "planA", 0),
   planE  |-> Entry("plan", "planE", 0),
   planC  |-> Entry("plan", "planC", 0),
   aliasC |-> Entry("alias", "aliasC", 0)]

Dep(plan, n) == Entry("deployment", plan.name, n)

\* What getCatalogEntries returned for serviceParams.
serviceEntries == <<catalog.tmpl, catalog.svcA, catalog.grpB>>

\* entry.children: svcA has the plans planA (with ndep deployments) and
\* planE (no children array); the group grpB holds the service svcC, whose
\* plan planC has a deployment and a child of another kind.
HasChildren(x) ==
  x \in {catalog.svcA, catalog.planA, catalog.grpB, catalog.svcC, catalog.planC}

ChildList(x) ==
  IF x = catalog.svcA THEN <<catalog.planA, catalog.planE>>
  ELSE IF x = catalog.planA THEN [i \in 1..ndep |-> Dep(catalog.planA, i)]
  ELSE IF x = catalog.grpB THEN <<catalog.svcC>>
  ELSE IF x = catalog.svcC THEN <<catalog.planC>>
  ELSE IF x = catalog.planC THEN <<Dep(catalog.planC, 1), catalog.aliasC>>
  ELSE <<>>

Nodes ==
  {catalog[k] : k \in DOMAIN catalog}
    \cup {Dep(catalog.planC, 1)}
    \cup {Dep(catalog.planA, i) : i \in 1..MaxDeployments}

\* The server answers every fetch well but for the one of fault.node.
NoFault == [node |-> catalog.tmpl, outcome |-> "ok"]

\* The one fetch that goes wrong, if any.  The fetch of a tree can fail
\* with a status or get no response at all; a pricing fetch can fail so
\* too, come back with an empty body, or with a payload that has no
\* USA-USD amounts or no metrics.
Faults ==
  LET TreeOutcomes == {"500", "noResponse"}
      PricingOutcomes ==
        {"404", "500", "noResponse", "noBody", "okOtherGeo", "okNoMetrics"}
  IN {NoFault}
       \cup {[node |-> x, outcome |-> o] :
               x \in {catalog.svcA, catalog.grpB}, o \in TreeOutcomes}
       \cup {[node |-> x, outcome |-> o] :
               x \in {catalog.planA, Dep(catalog.planA, 1), Dep(catalog.planC, 1)},
               o \in PricingOutcomes}

Outcome(x) == IF fault.node = x THEN fault.outcome ELSE "ok"

\* deployment_location of a node's pricing: set for a deployment only.
LocationOf(x) ==
  IF x.kind = "deployment" THEN x.name \o "-" \o toString(x.n) ELSE ""

\* The body of GET /{id}/pricing.
PricingOf(x) ==
  LET UsaMetric == Metric("m1", "Linear", <<Amount("USA", "USD", <<Cost(100)>>)>>)
      OtherGeoMetric == Metric("m1", "Linear", <<Amount("DEU", "EUR", <<Cost(100)>>)>>)
  IN IF Outcome(x) = "okNoMetrics" THEN PricingNoMetrics(LocationOf(x))
     ELSE IF Outcome(x) = "okOtherGeo" THEN Pricing(LocationOf(x), <<OtherGeoMetric>>)
     ELSE Pricing(LocationOf(x), <<UsaMetric>>)

----------------------------------------------------------------------------
(* generateProductHash and generatePriceHash of '../db/helpers', which the *)
(* scrapers import: content hashes over a product's (vendorName, region,   *)
(* sku) and over a price's identity under its product.  A hash is kept as  *)
(* the tuple of the fields it is computed over.                            *)

generateProductHash(product) == <<product.vendorName, product.region, product.sku>>

generatePriceHash(product, price) ==
  <<product.productHash, price.unit, price.endUsageAmount>>

----------------------------------------------------------------------------
(* parseProducts, src/src/scrapers/ibmCatalog.ts:362-409.                  *)

\* getAttributes
getAttributes(pricing, planName) ==
  [planName |-> planName, planType |-> pricing.type, region |-> pricing.region]

\* The pricing payloads the nested loops of parseProducts come to, in loop
\* order, each with the service and the plan it is found under: the
\* pricingChildren of the children of the children of every service that is
\* no group, and those of the services inside a group.
RECURSIVE PricingLeaves(_)
PricingLeaves(services) ==
  Flatten(
    [s \in 1..Len(services) |->
       LET service == services[s]
       IN IF ~HasChildren(service) THEN <<>>
          ELSE IF service = catalog.grpB (* service.group *) THEN PricingLeaves(ChildList(service))
          ELSE Flatten(
                 [p \in 1..Len(ChildList(service)) |->
                    LET plan == ChildList(service)[p]
                    IN IF ~HasChildren(plan) THEN <<>>
                       ELSE Flatten(
                              [d \in 1..Len(ChildList(plan)) |->
                                 LET deployment == ChildList(plan)[d]
                                 IN [k \in 1..Len(pricingChildren[deployment]) |->
                                       [service |-> service,
                                        plan    |-> plan,
                                        pricing |-> pricingChildren[deployment][k]]]])])])

\* attributes?.region || country
RegionOr(region, country) == IF region # "" THEN region ELSE country

\* The product pushed for one pricing payload, ibmCatalog.ts:387-398.
CatalogProduct(l, processedPricing, prices, country) ==
  LET p == [sku           |-> l.service.name \o "-" \o l.plan.name,
            vendorName    |-> "ibm",
            region        |-> RegionOr(processedPricing.region, country),
            service       |-> l.service.name,
            productFamily |-> "service",
            attributes    |-> getAttributes(processedPricing, l.plan.name),
            prices        |-> prices]
  IN [productHash |-> generateProductHash(p)] @@ p

\* What the loop body makes of the payloads from the first on: nothing for a
\* payload parsePricingJson rejects or one without prices, a product
\* otherwise; a getPrices that throws ends parseProducts.
RECURSIVE ProductsOfLeaves(_)
ProductsOfLeaves(leaves) ==
  IF leaves = <<>> THEN Returned(<<>>)
  ELSE LET l == Head(leaves)
           processedPricing == parsePricingJson(l.pricing)
       IN IF processedPricing = NullPricing THEN ProductsOfLeaves(Tail(leaves))
          ELSE LET prices == getPrices(processedPricing, "USA", "USD")
                   rest == ProductsOfLeaves(Tail(leaves))
               IN IF prices.threw \/ rest.threw THEN Threw
                  ELSE IF Len(prices.value) > 0
                       THEN Returned(<<CatalogProduct(l, processedPricing, prices.value, "USA")>>
                                       \o rest.value)
                       ELSE rest

parseProducts(services) == ProductsOfLeaves(PricingLeaves(services))

WalkIdle ==
  /\ ndep = 0
  /\ fault = NoFault
  /\ ei = 1
  /\ wpc = "idle"
  /\ stack = <<>>
  /\ currentElem = catalog.tmpl
  /\ chunks = <<>>
  /\ inflight = {}
  /\ fetched = {}
  /\ pricingChildren = [x \in Nodes |-> <<>>]
  /\ errorLog = {}
  /\ saasResults = <<>>
  /\ parsed = <<>>
  /\ werr = "none"
  /\ walkLog = <<>>

----------------------------------------------------------------------------
(* scrape() of ibmCatalog up to the upserts, lines 609-621, and            *)
(* fetchPricingForProduct, src/src/scrapers/ibmCatalog.ts:530-588.         *)

\* if (service.kind === 'service') is false: the entry is passed over.
SkipEntry ==
  /\ wpc = "entries"
  /\ ei <= Len(serviceEntries)
  /\ serviceEntries[ei].kind # "service"
  /\ ei' = ei + 1
  /\ UNCHANGED <<ndep, fault, wpc, stack, currentElem, chunks, inflight, fetched,
                 pricingChildren, errorLog, saasResults, parsed, werr,
                 walkLog>>

\* fetchPricingForProduct is called and GET /{id} gives the tree.
FetchTree ==
  /\ wpc = "entries"
  /\ ei <= Len(serviceEntries)
  /\ serviceEntries[ei].kind = "service"
  /\ Outcome(serviceEntries[ei]) = "ok"
  /\ stack' = <<serviceEntries[ei]>>
  /\ wpc' = "walk"
  /\ UNCHANGED <<ndep, fault, ei, currentElem, chunks, inflight, fetched,
                 pricingChildren, errorLog, saasResults, parsed, werr,
                 walkLog>>

\* GET /{id} rejects: nothing catches it in fetchPricingForProduct or in
\* scrape(), which rejects.
FetchTreeFails ==
  /\ wpc = "entries"
  /\ ei <= Len(serviceEntries)
  /\ serviceEntries[ei].kind = "service"
  /\ Outcome(serviceEntries[ei]) # "ok"
  /\ wpc' = "error"
  /\ werr' = "tree"
  /\ UNCHANGED <<ndep, fault, ei, stack, currentElem, chunks, inflight, fetched,
                 pricingChildren, errorLog, saasResults, parsed,
                 walkLog>>

\* _.chunk(array, size)
RECURSIVE Chunk(_, _)
Chunk(array, size) ==
  IF array = <<>> THEN <<>>
  ELSE IF Len(array) <= size THEN <<array>>
       ELSE <<SubSeq(array, 1, size)>> \o Chunk(SubSeq(array, size + 1, Len(array)), size)

\* A faulty variant of deploymentChildren: the children are not filtered.
deploymentChildrenUnfiltered(elem) == ChildList(elem)

\* currentElem.children.filter((child) => child.kind === 'deployment')
deploymentChildren(elem) ==
  SelectSeq(ChildList(elem), LAMBDA child : child.kind = "deployment")

\* stack.pop(): a plan with a children array has its chunks made; any other
\* element has its children pushed at once.
Pop ==
  /\ wpc = "walk"
  /\ stack # <<>>
  /\ LET elem == stack[Len(stack)]
         rest == SubSeq(stack, 1, Len(stack) - 1)
     IN /\ currentElem' = elem
        /\ walkLog' = Append(walkLog, [op |-> "pop", node |-> elem])
        /\ IF elem.kind = "plan" /\ HasChildren(elem)
           THEN /\ chunks' = Chunk(<<elem>> \o deploymentChildren(elem), chunkSize)
                /\ stack' = rest
                /\ wpc' = "chunks"
           ELSE /\ chunks' = <<>>
                /\ stack' = rest \o ChildList(elem)
                /\ wpc' = "walk"
  /\ UNCHANGED <<ndep, fault, ei, inflight, fetched, pricingChildren, errorLog,
                 saasResults, parsed, werr>>

\* A faulty variant of ChunkSettled: Promise.all is not awaited.
ChunkSettledNoAwait(fetches) == TRUE

\* await Promise.all(...): every fetch of the chunk has settled.
ChunkSettled(fetches) == fetches = {}

\* for (const elements of chunks): elements.map issues the GET
\* /{id}/pricing of every element of the chunk.
IssueChunk ==
  /\ wpc = "chunks"
  /\ chunks # <<>>
  /\ ChunkSettled(inflight)
  /\ inflight' = inflight \cup Range(Head(chunks))
  /\ fetched' = fetched \cup Range(Head(chunks))
  /\ walkLog' = walkLog \o [i \in 1..Len(Head(chunks)) |->
                                [op |-> "fetch", node |-> Head(chunks)[i]]]
  /\ chunks' = Tail(chunks)
  /\ UNCHANGED <<ndep, fault, ei, wpc, stack, currentElem, pricingChildren,
                 errorLog, saasResults, parsed, werr>>

\* The fetch was answered with a body.
GotBody(o) == o \in {"ok", "okOtherGeo", "okNoMetrics"}

\* The fetch rejected.
Rejected(o) == o \in {"404", "500", "noResponse"}

\* A faulty variant of LogsError: every rejection is logged.
LogsErrorAnyStatus(o) == TRUE

\* if (!e?.response?.status || e?.response?.status !== 404) logger.error(e)
\* (e.response.status is there when the server answered: "404", "500")
LogsError(o) == o \notin {"404", "500"} \/ o # "404"

\* A faulty variant of AfterPricingError: the rejection leaves the callback,
\* Promise.all rejects and with it fetchPricingForProduct and scrape().
AfterPricingErrorRethrown == "error"

\* The catch of the callback handles every rejection: the walk goes on.
AfterPricingError == "chunks"

\* A faulty variant of PricingTarget: the callbacks of a chunk write the
\* element the loop is at, not their own.
PricingTargetShared(element) == currentElem

\* element.pricingChildren = [pricingObject]: element is the parameter of
\* the callback, the element its own fetch was issued for.
PricingTarget(element) == element

\* One fetch of the chunk in flight settles: a body is attached as
\* pricingChildren, an empty body is passed over, a rejection is caught.
FetchSettles ==
  /\ wpc = "chunks"
  /\ \E element \in inflight :
       LET o == Outcome(element)
       IN /\ inflight' = inflight \ {element}
          /\ pricingChildren' =
               IF GotBody(o)
               THEN [pricingChildren EXCEPT ![PricingTarget(element)] = <<PricingOf(element)>>]
               ELSE pricingChildren
          /\ errorLog' =
               IF Rejected(o) /\ LogsError(o) THEN errorLog \cup {element} ELSE errorLog
          /\ wpc' = IF Rejected(o) THEN AfterPricingError ELSE wpc
          /\ werr' = IF Rejected(o) /\ AfterPricingError = "error" THEN "pricing" ELSE werr
  /\ UNCHANGED <<ndep, fault, ei, stack, currentElem, chunks, fetched,
                 saasResults, parsed,
                 walkLog>>

\* The chunks are through: the children of currentElem are pushed.
ChunksDone ==
  /\ wpc = "chunks"
  /\ chunks = <<>>
  /\ inflight = {}
  /\ stack' = stack \o ChildList(currentElem)
  /\ wpc' = "walk"
  /\ UNCHANGED <<ndep, fault, ei, currentElem, chunks, inflight, fetched,
                 pricingChildren, errorLog, saasResults, parsed, werr,
                 walkLog>>

\* The stack is empty: fetchPricingForProduct returns the tree and scrape()
\* pushes it on saasResults.
WalkReturn ==
  /\ wpc = "walk"
  /\ stack = <<>>
  /\ saasResults' = Append(saasResults, serviceEntries[ei])
  /\ ei' = ei + 1
  /\ wpc' = "entries"
  /\ UNCHANGED <<ndep, fault, stack, currentElem, chunks, inflight, fetched,
                 pricingChildren, errorLog, parsed, werr,
                 walkLog>>

\* After the loop: saasProducts = parseProducts(saasResults), which scrape()
\* goes on to upsert; a TypeError out of getPrices rejects scrape().
ParseResults ==
  /\ wpc = "entries"
  /\ ei > Len(serviceEntries)
  /\ LET r == parseProducts(saasResults)
     IN IF r.threw
        THEN /\ parsed' = <<>>
             /\ wpc' = "error"
             /\ werr' = "parse"
        ELSE /\ parsed' = r.value
             /\ wpc' = "upsert"
             /\ werr' = werr
  /\ UNCHANGED <<ndep, fault, ei, stack, currentElem, chunks, inflight, fetched,
                 pricingChildren, errorLog, saasResults,
                 walkLog>>

----------------------------------------------------------------------------
(* Spec: a caller hands addProducts any sequence of products.              *)

Init ==
  /\ UpsertIdle
  /\ table \in InitTables
  /\ tableAtCall = table
  /\ PageIdle
  /\ ScrapeIdle
  /\ PriceIdle
  /\ WalkIdle

CallAddProducts ==
  /\ upc = "idle"
  /\ \E ps \in SeqsUpTo(ProductSet, MaxLen) : BeginAddProducts(ps)
  /\ UNCHANGED <<pageVars, scrapeVars, priceVars, walkVars>>

CallAddProductsNoPool ==
  /\ upc = "idle"
  /\ \E ps \in SeqsUpTo(ProductSet, MaxLen) : BeginAddProductsNoPool(ps)
  /\ UNCHANGED <<pageVars, scrapeVars, priceVars, walkVars>>

Next ==
  \/ CallAddProducts
  \/ CallAddProductsNoPool
  \/ LoopFlush /\ UNCHANGED <<pageVars, scrapeVars, priceVars, walkVars>>
  \/ LoopAdd /\ UNCHANGED <<pageVars, scrapeVars, priceVars, walkVars>>
  \/ FinalFlush /\ UNCHANGED <<pageVars, scrapeVars, priceVars, walkVars>>
  \/ ReturnNoFlush /\ UNCHANGED <<pageVars, scrapeVars, priceVars, walkVars>>

Spec == Init /\ [][Next]_vars

----------------------------------------------------------------------------
(* Claims about addProducts, checked under Spec.                           *)

\* The rows of the statements sent so far, in the order sent.
IssuedRows == Flatten([i \in 1..Len(issued) |-> issued[i].rows])

DistinctHashes(rows) ==
  \A i, j \in 1..Len(rows) : i # j => rows[i].productHash # rows[j].productHash

\* What a prices column is to hold for a list of prices: each price under its
\* own hash, those of one hash in their input order.
GroupedByHash(prices) ==
  [k \in {prices[i].priceHash : i \in 1..Len(prices)} |->
     SelectSeq(prices, LAMBDA p : p.priceHash = k)]

InputHashes == {products[i].productHash : i \in 1..Len(products)}

LastWithHash(h) ==
  products[CHOOSE i \in 1..Len(products) :
             /\ products[i].productHash = h
             /\ \A j \in (i + 1)..Len(products) : products[j].productHash # h]

\* C1: no statement holds two rows with the same productHash, and when the
\* product about to be added has a hash already in the batch, the step taken
\* is a flush of that batch (which is then cleared), never the add.
C1_FlushBeforeDuplicate ==
  [][ /\ \A i \in 1..Len(issued') : DistinctHashes(issued'[i].rows)
      /\ ( /\ upc = "loop"
           /\ idx <= Len(products)
           /\ MapHas(productHashToInsertRow, products[idx].productHash) )
         => /\ idx' = idx
            /\ issued' = Append(issued, [rows |-> MapValues(productHashToInsertRow),
                                         ok |-> issued'[Len(issued')].ok])
            /\ upc' = "loop" => productHashToInsertRow' = <<>>
    ]_vars

\* C1 witness: a batch was just flushed because the next product's hash was in it.
C1_Witness ==
  /\ upc = "loop"
  /\ idx <= Len(products)
  /\ productHashToInsertRow = <<>>
  /\ Len(issued) >= 1
  /\ \E r \in Range(issued[Len(issued)].rows) : r.productHash = products[idx].productHash

\* C2: every statement sent holds at most batchSize rows.
C2_AtMostBatchSizeRows ==
  \A i \in 1..Len(issued) : Len(issued[i].rows) <= batchSize

\* C3: when addProducts has returned without error, the rows of the
\* statements sent are exactly the rows of the input products, one per product
\* and in input order, and every statement was applied: nothing is left
\* unflushed, the trailing partial batch included.
C3_AllFlushedInOrder ==
  upc = "done" =>
    /\ \A i \in 1..Len(issued) : issued[i].ok
    /\ Len(IssuedRows) = Len(products)
    /\ \A j \in 1..Len(products) :
         /\ IssuedRows[j].productHash = products[j].productHash
         /\ IssuedRows[j].sku = products[j].sku
         /\ IssuedRows[j].attributes = products[j].attributes

\* C3 witness: a run that returned after a flush inside the loop and a
\* trailing flush of a partial batch.
C3_Witness ==
  /\ upc = "done"
  /\ Len(issued) >= 2
  /\ Len(issued[Len(issued)].rows) < Len(issued[1].rows)

\* C4: after addProducts has returned, the stored row of every productHash of
\* the input holds the columns of the last input product with that hash, and
\* its prices column holds that product's prices only.
C4_LastWriterWins ==
  upc = "done" =>
    \A h \in InputHashes :
      LET p == LastWithHash(h)
          r == table[h]
      IN /\ r # NoRow
         /\ r.sku = p.sku
         /\ r.vendorName = p.vendorName
         /\ r.region = p.region
         /\ r.service = p.service
         /\ r.productFamily = p.productFamily
         /\ r.attributes = p.attributes
         /\ r.prices = GroupedByHash(p.prices)

\* C4 witness: a returned run that replaced a stored row holding a price hash
\* the incoming product does not have.
C4_Witness ==
  /\ upc = "done"
  /\ \E h \in InputHashes :
       /\ tableAtCall[h] # NoRow
       /\ \E k \in DOMAIN tableAtCall[h].prices : k \notin DOMAIN table[h].prices

\* C5: the prices value written for a product maps each priceHash of its
\* prices to the prices with that hash, in input order: every price once,
\* prices sharing a hash kept together.
C5_PricesGroupedByHash ==
  \A j \in 1..Len(IssuedRows) :
    j <= Len(products) => IssuedRows[j].prices = GroupedByHash(products[j].prices)

\* C5 witness: a written row with two prices under one priceHash.
C5_Witness ==
  \E j \in 1..Len(IssuedRows) :
    \E k \in DOMAIN IssuedRows[j].prices : Len(IssuedRows[j].prices[k]) = 2

\* The last row an applied statement wrote for h, or the row found at the call.
RECURSIVE LastApplied(_, _)
LastApplied(h, n) ==
  IF n = 0 THEN tableAtCall[h]
  ELSE IF issued[n].ok /\ \E r \in Range(issued[n].rows) : r.productHash = h
       THEN CHOOSE r \in Range(issued[n].rows) : r.productHash = h
       ELSE LastApplied(h, n - 1)

\* C6: a statement that fails is the last one sent and ends addProducts in
\* error, and the rows of the statements applied before it stay in the table.
C6_PerBatchDurability ==
  /\ \A i \in 1..Len(issued) :
       ~issued[i].ok => i = Len(issued) /\ upc = "error"
  /\ upc = "error" => \A h \in Hashes : table[h] = LastApplied(h, Len(issued))

\* C6 witness: a run that failed after a first statement was applied.
C6_Witness ==
  /\ upc = "error"
  /\ Len(issued) >= 2
  /\ issued[1].ok
  /\ \E r \in Range(issued[1].rows) : tableAtCall[r.productHash] # r

\* C29: addProducts never sends a statement with no row: each flush, the
\* one inside the loop and the trailing one, carries at least one row, and a
\* call with no product sends no statement at all.
C29_NoEmptyStatement ==
  /\ \A i \in 1..Len(issued) : issued[i].rows # <<>>
  /\ (upc # "idle" /\ products = <<>>) => issued = <<>>

\* C29 witness: addProducts was called with no product and has returned, and
\* nothing was sent.
C29_Witness ==
  /\ upc = "done"
  /\ products = <<>>
  /\ issued = <<>>

----------------------------------------------------------------------------
(* SpecPage: one of the two loops runs against a catalog of total entries. *)

InitPage ==
  /\ UpsertIdle
  /\ table = EmptyTable
  /\ tableAtCall = table
  /\ pfn \in {"getCatalogEntries", "queryCatalogItems"}
  /\ ppc = "loop"
  /\ total \in 0..MaxTotal
  /\ offset = 0
  /\ next = TRUE
  /\ servicesArray = <<>>
  /\ requests = <<>>
  /\ lastResp = NoResponse
  /\ ScrapeIdle
  /\ PriceIdle
  /\ WalkIdle

NextPage ==
  \/ GceRequest /\ UNCHANGED <<upsertVars, scrapeVars, priceVars, walkVars>>
  \/ GceRequestFails /\ UNCHANGED <<upsertVars, scrapeVars, priceVars, walkVars>>
  \/ GceReturn /\ UNCHANGED <<upsertVars, scrapeVars, priceVars, walkVars>>
  \/ QciRequest /\ UNCHANGED <<upsertVars, scrapeVars, priceVars, walkVars>>
  \/ QciRequestFails /\ UNCHANGED <<upsertVars, scrapeVars, priceVars, walkVars>>

SpecPage == InitPage /\ [][NextPage]_vars

----------------------------------------------------------------------------
(* Claims about the pagination loops, checked under SpecPage.              *)

\* C8: a list request that follows a response reporting a total count is
\* issued only when that response had offset + returnedCount < totalCount.
C8_NextOnlyWhileMore ==
  [][ ( /\ Len(requests') = Len(requests) + 1
        /\ Len(requests) >= 1
        /\ IsNumber(lastResp.count) )
      => requests[Len(requests)] + Len(lastResp.resources) < lastResp.count.val
    ]_vars

\* C9: after a response whose total count is missing or is not a number, no
\* further list request is issued.
C9_StopOnBadCount ==
  [][ (Len(requests) >= 1 /\ ~IsNumber(lastResp.count))
      => Len(requests') = Len(requests)
    ]_vars

----------------------------------------------------------------------------
(* SpecPageSteady: getCatalogEntries against a server that answers every   *)
(* request, reports the same positive total in every response and serves   *)
(* the page asked for (an empty one past the end).  The loop is the body   *)
(* of an async function: each await resumes once its request is answered,  *)
(* hence the weak fairness.                                                *)

InitPageSteady ==
  /\ InitPage
  /\ pfn = "getCatalogEntries"
  /\ total > 0

NextPageSteady ==
  \/ /\ GceRequest
     /\ lastResp'.count = Num(total)
     /\ UNCHANGED <<upsertVars, scrapeVars, priceVars, walkVars>>
  \/ GceReturn /\ UNCHANGED <<upsertVars, scrapeVars, priceVars, walkVars>>

SpecPageSteady ==
  InitPageSteady /\ [][NextPageSteady]_vars /\ WF_vars(NextPageSteady)

\* C30: against such a server getCatalogEntries returns, and what it returns
\* is every entry of the catalog exactly once, in offset order.
C30_EveryEntryOnceInOrder ==
  /\ <>(ppc = "done")
  /\ [](ppc = "done" => servicesArray = [i \in 1..total |-> i])

\* C30 witness: the loop has returned the entries of a catalog of more than
\* two pages, the last page partial.
C30_Witness ==
  /\ ppc = "done"
  /\ total > 2 * gceLimit
  /\ Len(servicesArray) = total
  /\ Len(requests) > 3

----------------------------------------------------------------------------
(* SpecScrape: one run of scrape() of one scraper.                         *)

InitScrape ==
  /\ UpsertIdle
  /\ table = EmptyTable
  /\ tableAtCall = table
  /\ PageIdle
  /\ scraper \in {"ibmKubernetes", "ibmInstances", "ibmCatalog"}
  /\ spc = "start"
  /\ attempts = 0
  /\ success = FALSE
  /\ resp = NullResp
  /\ events = <<>>
  /\ file \in {NoFile, StaleFile}
  /\ saasProducts = <<>>
  /\ iaasProducts = <<>>
  /\ upsertOutcomes = <<>>
  /\ PriceIdle
  /\ WalkIdle

NextScrape ==
  \/ DownloadAllStart /\ UNCHANGED <<upsertVars, pageVars, priceVars, walkVars>>
  \/ DownloadAttempt /\ UNCHANGED <<upsertVars, pageVars, priceVars, walkVars>>
  \/ DownloadSleep /\ UNCHANGED <<upsertVars, pageVars, priceVars, walkVars>>
  \/ DownloadWriteKubernetes /\ UNCHANGED <<upsertVars, pageVars, priceVars, walkVars>>
  \/ DownloadWriteInstances /\ UNCHANGED <<upsertVars, pageVars, priceVars, walkVars>>
  \/ LoadAllNoFile /\ UNCHANGED <<pageVars, priceVars, walkVars>>
  \/ LoadAllUpsert /\ UNCHANGED <<pageVars, priceVars, walkVars>>
  \/ LoadAllUpserted /\ UNCHANGED <<pageVars, priceVars, walkVars>>
  \/ CatalogCrawl /\ UNCHANGED <<upsertVars, pageVars, priceVars, walkVars>>
  \/ CatalogCrawlFails /\ UNCHANGED <<upsertVars, pageVars, priceVars, walkVars>>
  \/ CatalogUpsertSaas /\ UNCHANGED <<pageVars, priceVars, walkVars>>
  \/ CatalogSaasUpserted /\ UNCHANGED <<pageVars, priceVars, walkVars>>
  \/ CatalogUpsertIaas /\ UNCHANGED <<pageVars, priceVars, walkVars>>
  \/ CatalogIaasUpserted /\ UNCHANGED <<pageVars, priceVars, walkVars>>
  \/ AddProductsStep /\ UNCHANGED <<pageVars, scrapeVars, priceVars, walkVars>>

SpecScrape == InitScrape /\ [][NextScrape]_vars

----------------------------------------------------------------------------
(* Claims about scrape() and downloadAll, checked under SpecScrape.        *)

\* C7: when a statement of an upsertProducts call of a run has failed, that
\* call is the last one of the run and scrape() ends in error.
C7_WriteFailureAbortsRun ==
  \A i \in 1..Len(upsertOutcomes) :
    upsertOutcomes[i] = "writeFailed" =>
      /\ i = Len(upsertOutcomes)
      /\ spc = "error"

Requests == SelectSeq(events, LAMBDA ev : ev.e # "sleep")

\* C10: downloadAll makes at most MAX_RETRIES requests; a 429 is followed by
\* one sleep of RETRY_DELAY_MS and a sleep follows nothing but a 429; a
\* successful response is the last thing that happens in the loop; any other
\* failure is the last thing too and ends downloadAll in error.
C10_BoundedRetry ==
  /\ Len(Requests) <= MAX_RETRIES
  /\ \A i \in 1..Len(events) :
       /\ events[i].e = "429" =>
            IF i = Len(events) THEN spc = "sleep"
            ELSE events[i + 1] = Event("sleep", RETRY_DELAY_MS)
       /\ events[i].e = "sleep" => i > 1 /\ events[i - 1].e = "429"
       /\ events[i].e = "ok" => i = Len(events)
       /\ events[i].e \in {"status", "noResponse"} =>
            i = Len(events) /\ spc = "error"

\* C10 witness: two 429 answers, each slept on, then the price list.
C10_Witness ==
  /\ Len(events) = 5
  /\ events[1].e = "429"
  /\ events[3].e = "429"
  /\ events[5].e = "ok"
  /\ spc = "write"

\* Every one of the MAX_RETRIES requests was answered with 429 and the last
\* sleep is over.
RetriesExhausted ==
  /\ Len(Requests) = MAX_RETRIES
  /\ \A i \in 1..Len(Requests) : Requests[i].e = "429"
  /\ Len(events) = 2 * MAX_RETRIES

\* C11: once every one of the MAX_RETRIES requests of downloadAll was answered
\* with 429, scrape() ends in error, and that run loads no file and calls
\* upsertProducts with nothing.
C11_RateLimitExhaustionFails ==
  RetriesExhausted =>
    /\ spc = "error"
    /\ upc = "idle"
    /\ upsertOutcomes = <<>>

----------------------------------------------------------------------------
(* SpecPrices: one of the price mappings is applied to one payload.        *)

InitPrices ==
  /\ UpsertIdle
  /\ table = EmptyTable
  /\ tableAtCall = table
  /\ PageIdle
  /\ ScrapeIdle
  /\ WalkIdle
  /\ nfn = "none"
  /\ leaf \in PricingPayloads \cup ProductJsons
  /\ emitted = Returned(<<>>)
  /\ clock = 0
  /\ earlier = Returned(<<>>)

NextPrices ==
  \/ CallGetPrices /\ UNCHANGED <<upsertVars, pageVars, scrapeVars, walkVars>>
  \/ CallGetPrices_part003 /\ UNCHANGED <<upsertVars, pageVars, scrapeVars, walkVars>>
  \/ CallParsePrices /\ UNCHANGED <<upsertVars, pageVars, scrapeVars, walkVars>>

SpecPrices == InitPrices /\ [][NextPrices]_vars

----------------------------------------------------------------------------
(* Claims about the price mappings, checked under SpecPrices.              *)

\* A metric of a payload has an amount bucket for (country, currency).
HasBucket(metric, country, currency) ==
  \E a \in Range(metric.amounts) :
    a.country = country /\ a.currency = currency /\ a.prices # <<>>

\* The price points of a metric for (country, currency).
BucketOf(metric, country, currency) ==
  (CHOOSE a \in Range(metric.amounts) :
     a.country = country /\ a.currency = currency /\ a.prices # <<>>).prices

\* The rows emitted for one metric, in the order emitted.
RowsOfMetric(id) == SelectSeq(emitted.value, LAMBDA r : r.partNumber = id)

\* C17: getPrices applied to a leaf raises no error, and it returns no price
\* for a metric that has no amount bucket for (USA, USD); so a leaf with no
\* such bucket at all gives the empty price list.
C17_NoBucketNoPrices ==
  nfn \in {"getPrices", "getPrices_part003"} =>
    /\ ~emitted.threw
    /\ \A m \in Range(leaf.metrics) :
         ~HasBucket(m, "USA", "USD") => RowsOfMetric(m.metric_id) = <<>>

\* The tier sequences emitted: the rows of each metric by getPrices, all
\* rows of the product by parsePrices.
TierSequences ==
  IF nfn = "parsePrices" THEN {emitted.value}
  ELSE IF nfn = "getPrices_part003"
       THEN {RowsOfMetric(m.metric_id) : m \in Range(leaf.metrics)}
       ELSE {}

\* C18: in every emitted tier sequence the first row's startUsageAmount is
\* "0" and every later row's startUsageAmount is the endUsageAmount of the
\* row before it.
C18_StartIsPreviousEnd ==
  \A rows \in TierSequences :
    \A i \in 1..Len(rows) :
      rows[i].startUsageAmount = IF i = 1 THEN "0" ELSE rows[i - 1].endUsageAmount

\* The tier boundary behind the i-th row emitted for a payload (0: none).
Boundary(i) ==
  IF nfn = "parsePrices"
  THEN IF leaf.max_quantity # 0 THEN leaf.max_quantity
       ELSE leaf.tiers[i].instance_hours
  ELSE LET r == emitted.value[i]
           m == CHOOSE m \in Range(leaf.metrics) : m.metric_id = r.partNumber
           k == CHOOSE k \in 1..Len(RowsOfMetric(r.partNumber)) :
                  RowsOfMetric(r.partNumber)[k] = r
       IN BucketOf(m, "USA", "USD")[k].quantity_tier

\* C19: a row's endUsageAmount is "Inf" exactly when its tier boundary is the
\* run of nine 9s, and the decimal string of the boundary otherwise.
C19_InfExactlyForNineNines ==
  (nfn # "none" /\ ~emitted.threw) =>
    \A i \in 1..Len(emitted.value) :
      Boundary(i) # 0 =>
        emitted.value[i].endUsageAmount =
          IF Digits(Boundary(i)) = lastThresholdAmountPattern
          THEN "Inf"
          ELSE toString(Boundary(i))

\* The number of tier points behind the i-th row emitted.
TierPointsOf(i) ==
  IF nfn = "parsePrices" THEN Len(leaf.tiers)
  ELSE Len(RowsOfMetric(emitted.value[i].partNumber))

\* C20 as stated: every emitted Price has tierModel "Step Tier" when its
\* metric or tier list has more than one tier point and "Linear" when it has
\* exactly one.
C20_TierModelByTierCount ==
  (nfn # "none" /\ ~emitted.threw) =>
    \A i \in 1..Len(emitted.value) :
      emitted.value[i].tierModel =
        IF TierPointsOf(i) > 1 THEN "Step Tier" ELSE "Linear"

\* C20 as amended: a Price emitted by parsePrices has tierModel "Step Tier"
\* when the product has more than one tier and "Linear" when it has exactly
\* one; a Price emitted by getPrices carries the tier_model of its metric
\* unchanged, whatever the number of tier points.
C20_TierModelAmended ==
  (nfn # "none" /\ ~emitted.threw) =>
    \A i \in 1..Len(emitted.value) :
      emitted.value[i].tierModel =
        IF nfn = "parsePrices"
        THEN IF Len(leaf.tiers) > 1 THEN "Step Tier" ELSE "Linear"
        ELSE (CHOOSE m \in Range(leaf.metrics) :
                m.metric_id = emitted.value[i].partNumber).tier_model

\* C20 witness: parsePrices has emitted the single row of a one-tier product.
C20_Witness ==
  /\ nfn = "parsePrices"
  /\ Len(leaf.tiers) = 1
  /\ Len(emitted.value) = 1
  /\ emitted.value[1].tierModel = "Linear"

----------------------------------------------------------------------------
(* SpecWalk: the crawl of one run of ibmCatalog's scrape() against a       *)
(* catalog with ndep deployments under planA and at most one failing node. *)

InitWalk ==
  /\ UpsertIdle
  /\ table = EmptyTable
  /\ tableAtCall = table
  /\ PageIdle
  /\ ScrapeIdle
  /\ PriceIdle
  /\ ndep \in 0..MaxDeployments
  /\ fault \in Faults
  /\ ei = 1
  /\ wpc = "entries"
  /\ stack = <<>>
  /\ currentElem = catalog.tmpl
  /\ chunks = <<>>
  /\ inflight = {}
  /\ fetched = {}
  /\ pricingChildren = [x \in Nodes |-> <<>>]
  /\ errorLog = {}
  /\ saasResults = <<>>
  /\ parsed = <<>>
  /\ werr = "none"
  /\ walkLog = <<>>

NextWalk ==
  \/ SkipEntry /\ UNCHANGED <<upsertVars, pageVars, scrapeVars, priceVars>>
  \/ FetchTree /\ UNCHANGED <<upsertVars, pageVars, scrapeVars, priceVars>>
  \/ FetchTreeFails /\ UNCHANGED <<upsertVars, pageVars, scrapeVars, priceVars>>
  \/ Pop /\ UNCHANGED <<upsertVars, pageVars, scrapeVars, priceVars>>
  \/ IssueChunk /\ UNCHANGED <<upsertVars, pageVars, scrapeVars, priceVars>>
  \/ FetchSettles /\ UNCHANGED <<upsertVars, pageVars, scrapeVars, priceVars>>
  \/ ChunksDone /\ UNCHANGED <<upsertVars, pageVars, scrapeVars, priceVars>>
  \/ WalkReturn /\ UNCHANGED <<upsertVars, pageVars, scrapeVars, priceVars>>
  \/ ParseResults /\ UNCHANGED <<upsertVars, pageVars, scrapeVars, priceVars>>

SpecWalk == InitWalk /\ [][NextWalk]_vars

----------------------------------------------------------------------------
(* Claims about the crawl, checked under SpecWalk.                         *)

\* The nodes whose pricing fetch has settled.
Settled == fetched \ inflight

\* The nodes of the tree under a node, the node included.
RECURSIVE TreeNodes(_)
TreeNodes(x) == {x} \cup UNION {TreeNodes(c) : c \in Range(ChildList(x))}

\* The plans of the trees pushed on saasResults.
WalkedPlans ==
  {x \in UNION {TreeNodes(r) : r \in Range(saasResults)} : x.kind = "plan"}

ParentOf(x) == CHOOSE s \in Nodes : x \in Range(ChildList(s))

DeploymentsOf(plan) == {c \in Range(ChildList(plan)) : c.kind = "deployment"}

\* The pricing attached to a node has prices for (USA, USD).
HasUsaPrices(x) ==
  /\ pricingChildren[x] # <<>>
  /\ "metrics" \in DOMAIN pricingChildren[x][1]
  /\ \E m \in Range(pricingChildren[x][1].metrics) : HasBucket(m, "USA", "USD")

\* parseProducts gave a product for the pricing found at x, a plan or one of
\* its deployments.
HasProductFor(plan, x) ==
  \E p \in Range(parsed) :
    /\ p.sku = ParentOf(plan).name \o "-" \o plan.name
    /\ p.region = RegionOr(LocationOf(x), "USA")
    /\ p.prices # <<>>

\* C12: a pricing fetch answered with 404 leaves the node without
\* pricingChildren, logs no error, and does not stop the walk.
C12_NotFoundIsAbsence ==
  \A x \in Settled :
    Outcome(x) = "404" =>
      /\ pricingChildren[x] = <<>>
      /\ x \notin errorLog
      /\ wpc # "error"

\* C12 witness: the crawl came to its end after a 404 for a deployment.
C12_Witness ==
  /\ fault.outcome = "404"
  /\ fault.node \in Settled
  /\ fault.node.kind = "deployment"
  /\ wpc = "upsert"

\* C13: a pricing fetch that fails does not reject the walk, every element
\* whose fetch gave a body has that body attached, and at the end of the
\* crawl every deployment with USA-USD pricing attached has its product,
\* whatever became of its siblings.
C13_SiblingsKeepTheirPricing ==
  /\ werr # "pricing"
  /\ \A x \in Settled : GotBody(Outcome(x)) => pricingChildren[x] = <<PricingOf(x)>>
  /\ wpc = "upsert" =>
       \A plan \in WalkedPlans :
         \A d \in DeploymentsOf(plan) : HasUsaPrices(d) => HasProductFor(plan, d)

\* C13 witness: the first of at least five deployments of planA got a 404
\* and the crawl ended with the products of the next four.
C13_Witness ==
  /\ fault = [node |-> Dep(catalog.planA, 1), outcome |-> "404"]
  /\ ndep >= 5
  /\ wpc = "upsert"
  /\ ~HasProductFor(catalog.planA, Dep(catalog.planA, 1))
  /\ \A i \in 2..5 : HasProductFor(catalog.planA, Dep(catalog.planA, i))

\* C14: never more than chunkSize pricing fetches are in flight, and fetches
\* are issued only when none is in flight, all those of the next chunk
\* together.
C14_OneChunkInFlight ==
  [][ /\ Cardinality(inflight') <= chunkSize
      /\ (inflight' \ inflight # {}) =>
           /\ inflight = {}
           /\ chunks # <<>>
           /\ inflight' = Range(Head(chunks))
           /\ chunks' = Tail(chunks)
    ]_vars

\* C14 witness: the second chunk of planA is in flight after a first chunk
\* of chunkSize fetches has settled.
C14_Witness ==
  /\ currentElem = catalog.planA
  /\ inflight # {}
  /\ Cardinality(fetched \ inflight) >= chunkSize

\* C15: at the end of the crawl, a pricing fetch was issued for every plan
\* walked and for each of its deployment children, and each of these nodes
\* with USA-USD pricing attached has a product.
C15_PlanAndDeploymentPricing ==
  wpc = "upsert" =>
    \A plan \in WalkedPlans :
      \A x \in {plan} \cup DeploymentsOf(plan) :
        /\ x \in fetched
        /\ HasUsaPrices(x) => HasProductFor(plan, x)

\* C16: a run in which one fetch is rejected, that of a tree or that of a
\* node's pricing, does not end in error.
C16_FetchFailureIsolated ==
  Rejected(fault.outcome) => wpc # "error"

\* How often the walk popped a node, and how often it issued its pricing fetch.
TimesLogged(op, x) ==
  Cardinality({i \in 1..Len(walkLog) : walkLog[i] = [op |-> op, node |-> x]})

\* The nodes the claims call priced: a plan, and a deployment child of a plan.
IsPricedNode(x) ==
  \/ x.kind = "plan"
  \/ x.kind = "deployment" /\ ParentOf(x).kind = "plan"

\* C26: the walk issues a pricing fetch for plans and for deployment
\* children of plans only; a group, a service or a child of another kind is
\* only expanded: once the crawl is over each of its children was popped.
C26_FetchOnlyPricedNodes ==
  /\ \A i \in 1..Len(walkLog) :
       walkLog[i].op = "fetch" => IsPricedNode(walkLog[i].node)
  /\ wpc = "upsert" =>
       \A i \in 1..Len(walkLog) :
         (walkLog[i].op = "pop" /\ ~IsPricedNode(walkLog[i].node)) =>
           /\ TimesLogged("fetch", walkLog[i].node) = 0
           /\ \A c \in Range(ChildList(walkLog[i].node)) : TimesLogged("pop", c) >= 1

\* C26 witness: the crawl is over; the group grpB and the alias under planC
\* were popped and never fetched, the plan inside the group was fetched.
C26_Witness ==
  /\ wpc = "upsert"
  /\ TimesLogged("pop", catalog.grpB) = 1
  /\ TimesLogged("pop", catalog.aliasC) = 1
  /\ TimesLogged("fetch", catalog.grpB) = 0
  /\ TimesLogged("fetch", catalog.aliasC) = 0
  /\ TimesLogged("fetch", catalog.planC) = 1

\* C27: when fetchPricingForProduct has returned a tree, every node of the
\* tree was popped exactly once and the pricing fetch of every plan and of
\* every deployment child of a plan was issued exactly once.
C27_EveryNodeOnceEveryFetchOnce ==
  \A r \in Range(saasResults) :
    \A x \in TreeNodes(r) :
      /\ TimesLogged("pop", x) = 1
      /\ IsPricedNode(x) => TimesLogged("fetch", x) = 1

\* C28: at every point of the walk the pricingChildren of a node is the body
\* of its own fetch if that fetch has settled with a body, and unset
\* otherwise: the tree is a function of which fetches have settled, whatever
\* the order they settled in.
C28_OwnElementOnly ==
  \A x \in Nodes :
    pricingChildren[x] =
      IF x \in Settled /\ GotBody(Outcome(x)) THEN <<PricingOf(x)>> ELSE <<>>

\* C28 witness: a chunk of a plan and three deployments has settled whole,
\* each of the four with its own pricing.
C28_Witness ==
  /\ wpc = "chunks"
  /\ inflight = {}
  /\ ndep = 3
  /\ \A x \in {catalog.planA} \cup {Dep(catalog.planA, i) : i \in 1..3} :
       pricingChildren[x] = <<PricingOf(x)>>

----------------------------------------------------------------------------
(* The product mappings of the scrapers: parseIbmProduct under loadAll     *)
(* (src/src/scrapers/ibmKubernetes.ts:210-285), collectPriceComponents     *)
(* (src/unnamed/part_003:317-350) and cleanAndFormatData                   *)
(* (src/src/scrapers/ibmCloud.ts:296-382).                                 *)

\* parseIbmProduct: the hash is taken before attributes and prices are set;
\* parsePrices stamps each price with generatePriceHash(product, price).
parseIbmProduct(productJson) ==
  LET product ==
        [sku           |-> productJson.plan_id \o "-" \o productJson.country \o "-"
                             \o productJson.currency \o "-" \o productJson.flavor \o "-"
                             \o productJson.operating_system,
         vendorName    |-> "ibm",
         region        |-> productJson.region,
         service       |-> "containers-kubernetes",
         productFamily |-> ""]
      hashed == [productHash |-> generateProductHash(product)] @@ product
      prices == parsePrices(productJson)
  IN [attributes |-> [currency        |-> productJson.currency,
                      provider        |-> productJson.provider,
                      flavor          |-> productJson.flavor,
                      operatingSystem |-> productJson.operating_system,
                      country         |-> productJson.country],
      prices     |-> [i \in 1..Len(prices) |->
                        [priceHash |-> generatePriceHash(hashed, prices[i])]
                          @@ prices[i]]]
       @@ hashed

\* collectPriceComponents of src/unnamed/part_003: no product, or one.
collectPriceComponents(product, plan, pricing, productFamily) ==
  LET processedPricing == parsePricingJson(pricing)
  IN IF processedPricing = NullPricing THEN <<>>
     ELSE LET prices == getPrices_part003(processedPricing, "USA", "USD").value
          IN IF Len(prices) > 0
             THEN <<[CatalogProduct([service |-> product, plan |-> plan],
                                    processedPricing, prices, "USA")
                       EXCEPT !.productFamily = productFamily]>>
             ELSE <<>>

\* cleanAndFormatData: services[k] is one deployment's pricing[0] with the
\* names of the service and the plan it is nested under, the pricing as
\* extractPricingInfo left it (the reducer parsePricingJson has as well).
cleanAndFormatData(services) ==
  Flatten(
    [k \in 1..Len(services) |->
       LET l == services[k]
           amountsAndMetrics == parsePricingJson(l.pricing)
       IN IF "metrics" \notin DOMAIN amountsAndMetrics THEN <<>>
          ELSE LET bucket == MapGet(amountsAndMetrics.amounts, <<"USA", "USD">>)
                   prices ==
                     Flatten(
                       [j \in 1..Len(bucket) |->
                          LET code == bucket[j].key
                              costs == bucket[j].value
                              meta == MapGet(amountsAndMetrics.metrics, code)
                          IN [i \in 1..Len(costs) |->
                                [startPrice         |-> l.pricing.starting_price.price,
                                 startQuantityTier  |-> l.pricing.starting_price.quantity_tier,
                                 priceHash          |-> <<"USA", "USD", costs[i].quantity_tier>>,
                                 purchaseOption     |-> "",
                                 code               |-> code,
                                 price              |-> costs[i].price,
                                 quantityTier       |-> costs[i].quantity_tier,
                                 tierModel          |-> meta.tierModel,
                                 unit               |-> meta.chargeUnit,
                                 effectiveDateStart |->
                                   IF meta.effectiveFrom # "" THEN meta.effectiveFrom
                                   ELSE "T" \o toString(clock),
                                 effectiveDateEnd   |-> meta.effectiveUntil]]])
               IN IF Len(prices) > 0
                  THEN <<[productHash   |-> <<l.service.name, l.plan.name,
                                              amountsAndMetrics.region, "USA", "USD">>,
                          sku           |-> l.plan.name,
                          vendorName    |-> "ibm",
                          region        |-> amountsAndMetrics.region,
                          service       |-> l.service.name,
                          productFamily |-> "service",
                          attributes    |-> [type |-> amountsAndMetrics.type],
                          prices        |-> prices]>>
                  ELSE <<>>])

\* Runs of one scraper against the same remote data.
MaxRuns == 2

\* The entries of the price list of GET /prices: two flavors, two
\* providers, deprecated or not, with no tier, one, or two.
PriceListEntries ==
  {[plan_id |-> "containers.kubernetes", region |-> "us-south", flavor |-> f,
    operating_system |-> "UBUNTU", country |-> "USA", currency |-> "USD",
    provider |-> pr, deprecated |-> dep, unit |-> "hour",
    min_quantity |-> 0, max_quantity |-> 0, tiers |-> t] :
     f \in {"bx2.4x16", "cx2.2x4"}, pr \in {"vpc-gen2", "classic"},
     dep \in {"", "true"},
     t \in {<<>>,
            <<[price |-> 1, instance_hours |-> 100]>>,
            <<[price |-> 1, instance_hours |-> 100],
              [price |-> 1, instance_hours |-> 999999999]>>}}

\* The pricing leaves of a crawled catalog, each with the service and the
\* plan it hangs under: the plan planA is offered by two services; a leaf
\* has no metric, one metric with the price points (100 at 1.0, 999999999
\* at 0.5; prices in tenths), or a second metric with one price point as
\* well; the metrics come with an effective_from or without.
CatalogLeaves ==
  LET Tiers == <<[price |-> 10, quantity_tier |-> 100],
                 [price |-> 5, quantity_tier |-> 999999999]>>
      M(id, from, costs) ==
        [Metric(id, "Step Tier", <<Amount("USA", "USD", costs)>>)
           EXCEPT !.effective_from = from]
      MetricLists ==
        {<<>>}
          \cup {<<M("m1", from, Tiers)>> : from \in {"", "2020-01-01T00:00:00.000Z"}}
          \cup {<<M("m1", from, Tiers), M("m2", from, <<Cost(999999999)>>)>> :
                  from \in {"", "2020-01-01T00:00:00.000Z"}}
  IN {[service |-> svc, plan |-> catalog.planA,
       pricing |-> [starting_price |-> Cost(100)] @@ Pricing("us-south", ms)] :
        svc \in {catalog.svcA, catalog.svcC}, ms \in MetricLists}

\* loadAll: every entry that is not deprecated is parsed and pushed, and
\* the products go to upsertProducts.
RunLoadAll ==
  /\ nfn = "loadAll"
  /\ clock < MaxRuns
  /\ earlier' = emitted
  /\ emitted' = Returned(Flatten(
                   [k \in 1..Len(leaf) |->
                      IF leaf[k].deprecated # "" THEN <<>>
                      ELSE <<parseIbmProduct(leaf[k])>>]))
  /\ clock' = clock + 1
  /\ UNCHANGED <<nfn, leaf>>

\* parseProducts of src/src/scrapers/ibmCatalog.ts over the leaves its loops
\* come to.
RunParseProducts ==
  /\ nfn = "parseProducts"
  /\ clock < MaxRuns
  /\ earlier' = emitted
  /\ emitted' = ProductsOfLeaves(leaf)
  /\ clock' = clock + 1
  /\ UNCHANGED <<nfn, leaf>>

\* parseProducts of src/unnamed/part_003: walkPlan calls
\* collectPriceComponents for every leaf and pushes what it returns.
RunCollectPriceComponents ==
  /\ nfn = "collectPriceComponents"
  /\ clock < MaxRuns
  /\ earlier' = emitted
  /\ emitted' = Returned(Flatten(
                   [k \in 1..Len(leaf) |->
                      collectPriceComponents(leaf[k].service, leaf[k].plan,
                                             leaf[k].pricing, "service")]))
  /\ clock' = clock + 1
  /\ UNCHANGED <<nfn, leaf>>

\* scrape() of ibmCloud: cleanAndFormatData(results), then upsertProducts.
RunCleanAndFormatData ==
  /\ nfn = "cleanAndFormatData"
  /\ clock < MaxRuns
  /\ earlier' = emitted
  /\ emitted' = Returned(cleanAndFormatData(leaf))
  /\ clock' = clock + 1
  /\ UNCHANGED <<nfn, leaf>>

----------------------------------------------------------------------------
(* SpecProducts: one scraper maps the same remote data to products, run    *)
(* after run; emitted is what the last run handed to upsertProducts,       *)
(* earlier what the run before it did.                                     *)

InitProducts ==
  /\ UpsertIdle
  /\ table = EmptyTable
  /\ tableAtCall = table
  /\ PageIdle
  /\ ScrapeIdle
  /\ WalkIdle
  /\ nfn \in {"loadAll", "parseProducts", "collectPriceComponents", "cleanAndFormatData"}
  /\ leaf \in IF nfn = "loadAll" THEN SeqsUpTo(PriceListEntries, MaxPayload)
              ELSE SeqsUpTo(CatalogLeaves, MaxPayload)
  /\ emitted = Returned(<<>>)
  /\ clock = 0
  /\ earlier = Returned(<<>>)

NextProducts ==
  \/ RunLoadAll /\ UNCHANGED <<upsertVars, pageVars, scrapeVars, walkVars>>
  \/ RunParseProducts /\ UNCHANGED <<upsertVars, pageVars, scrapeVars, walkVars>>
  \/ RunCollectPriceComponents /\ UNCHANGED <<upsertVars, pageVars, scrapeVars, walkVars>>
  \/ RunCleanAndFormatData /\ UNCHANGED <<upsertVars, pageVars, scrapeVars, walkVars>>

SpecProducts == InitProducts /\ [][NextProducts]_vars

----------------------------------------------------------------------------
(* Claims about the products handed to upsertProducts, checked under       *)
(* SpecProducts.                                                           *)

\* C21: no product handed to upsertProducts has an empty prices list.
C21_NoProductWithoutPrices ==
  \A i \in 1..Len(emitted.value) : emitted.value[i].prices # <<>>

\* C22: among the products of a run, two have the same productHash exactly
\* when they agree on (vendorName, region, sku), whatever their attributes,
\* prices, service and productFamily.
C22_HashOfTripleOnly ==
  \A p, q \in Range(emitted.value) :
    (p.productHash = q.productHash)
      <=> (<<p.vendorName, p.region, p.sku>> = <<q.vendorName, q.region, q.sku>>)

\* The (metricId, country, currency, quantityTier) a Price row of the
\* catalog mappings stands for: cleanAndFormatData keeps the metric as code
\* and the boundary as quantityTier, getPrices as partNumber and as the
\* text endUsageAmount.
PriceKey(price) ==
  IF "code" \in DOMAIN price
  THEN <<price.code, "USA", "USD", toString(price.quantityTier)>>
  ELSE <<price.partNumber, price.country, price.currency, price.endUsageAmount>>

\* C23: within one product of the catalog mappings, two Price rows have the
\* same priceHash exactly when they agree on (metricId, country, currency,
\* quantityTier).
C23_PriceHashOfKey ==
  nfn # "loadAll" =>
    \A k \in 1..Len(emitted.value) :
      \A a, b \in Range(emitted.value[k].prices) :
        (a.priceHash = b.priceHash) <=> (PriceKey(a) = PriceKey(b))

\* The (productHash, priceHash) pairs of a run, and the rows it has stored.
HashPairs(run) ==
  UNION {{<<p.productHash, price.priceHash>> : price \in Range(p.prices)} :
           p \in Range(run.value)}

StoredRows(run) == [k \in 1..Len(run.value) |-> InsertRow(run.value[k])]

\* C24: a second run against the same remote data gives the same
\* (productHash, priceHash) pairs as the first and stores the same value in
\* every column, the fields of each price included.
C24_SecondRunStoresTheSame ==
  clock >= 2 =>
    /\ HashPairs(emitted) = HashPairs(earlier)
    /\ StoredRows(emitted) = StoredRows(earlier)

\* C25: one service with one plan and one pricing leaf holding one USA-USD
\* metric with the price points (100, 999999999) is mapped by parseProducts
\* to exactly one product with exactly two prices, ("0", "100") and
\* ("100", "Inf") as (startUsageAmount, endUsageAmount).
C25_TwoTierScenario ==
  ( /\ nfn \in {"parseProducts", "collectPriceComponents"}
    /\ clock >= 1
    /\ Len(leaf) = 1
    /\ Len(leaf[1].pricing.metrics) = 1 )
  => /\ ~emitted.threw
     /\ Len(emitted.value) = 1
     /\ LET prices == emitted.value[1].prices
        IN /\ Len(prices) = 2
           /\ \A i \in 1..2 : "startUsageAmount" \in DOMAIN prices[i]
           /\ <<prices[1].startUsageAmount, prices[1].endUsageAmount>> = <<"0", "100">>
           /\ <<prices[2].startUsageAmount, prices[2].endUsageAmount>> = <<"100", "Inf">>

====
